---------------------------- MODULE Spec2Model ----------------------------
(***************************************************************************)
(* Model of the Personal_Assist expense tracker (servers/expense_server),  *)
(* its data-access tools (mcp_tools/expense_tools), the two stores behind  *)
(* them (utils/supabase_config, utils/data_manager), update_meeting        *)
(* (mcp_tools/meeting_tools) and the orchestrator: its user-id extraction, *)
(* its four tools and orchestrator_agent (servers/orchestrator_server).    *)
(*                                                                         *)
(* Text is modelled as TLA+ strings, character by character: substring     *)
(* tests, str.replace, str.split and the regular expressions of the code   *)
(* are operators over the characters of the text.  The emoji that open    *)
(* some replies are left out of the reply texts.  Writes of the JSON file  *)
(* succeed; the hosted database may refuse a statement; the print that     *)
(* opens add_expense, outside its try, may fail to write.  Amounts are     *)
(* held in hundredths.                                                     *)
(***************************************************************************)
EXTENDS Integers, Sequences, FiniteSets, TLC

VARIABLES
    USER_ID,        \* os.getenv('USER_ID'); NoEnv when the setting is absent
    creds,          \* SUPABASE_URL and SUPABASE_API_KEY are both set
    client,         \* supabase_manager.client is not None (is_connected())
    expenses_table, \* rows of the hosted "expenses" table
    expenses_file,  \* the list kept in data/expenses.json
    meetings_file,  \* the list kept in data/meetings.json
    today,          \* the date datetime.now() falls on
    food_logs,      \* the module-level list food_logs of health_diet_tools
    food_logs_table,\* rows of the hosted "food_logs" table
    threads,        \* the callers inside DataManager.add_expense / add_meeting:
                    \* where each stands and the list it has read
    history,        \* the requests expense_tracker answered before this one:
                    \* utterance and decision of each, in order; for direct
                    \* calls of a manager or tool, the calls made so far with
                    \* their results
    phase,          \* "idle" -> "sent" -> "done" (one request to expense_tracker);
                    \* "orch_idle" -> "crew" -> "orch_done" (one request to
                    \* personal_assistant); "tools", "db", "conflicts",
                    \* "expense_tools", "store", "food", "threads" (direct
                    \* calls of tools, SupabaseManager and DataManager);
                    \* "user_id" -> "user_id_done" and "date" -> "date_done"
                    \* for one function
    inbox,          \* the text in flight to the handler or function under study
    sent_user,      \* the user_id argument the orchestrator tool was called with
    run,            \* what the handler did: branch taken and arguments extracted
    calls,          \* data-access tool calls of the run, in order
    out             \* messages yielded by the handler, or the function's result

vars == <<USER_ID, creds, client, expenses_table, expenses_file, meetings_file,
          today, food_logs, food_logs_table, threads, history, phase, inbox, sent_user, run, calls, out>>

-----------------------------------------------------------------------------
(* Python str and re primitives                                            *)

Min(S) == CHOOSE x \in S : \A y \in S : x <= y
Max(S) == CHOOSE x \in S : \A y \in S : x >= y

\* t[i-1:j] with Python's clamping of the bounds (1-based, j inclusive)
Slice(t, i, j) ==
    LET a == IF i < 1 THEN 1 ELSE i
        b == IF j > Len(t) THEN Len(t) ELSE j
    IN  IF a > b THEN "" ELSE SubSeq(t, a, b)

Char(t, i) == Slice(t, i, i)

\* `p in t`
Contains(t, p) ==
    \E i \in 1..(Len(t) - Len(p) + 1) : SubSeq(t, i, i + Len(p) - 1) = p

\* t.find(p) + 1 (0 when p does not occur)
IndexOf(t, p) ==
    LET S == {i \in 1..(Len(t) - Len(p) + 1) : SubSeq(t, i, i + Len(p) - 1) = p}
    IN  IF S = {} THEN 0 ELSE Min(S)

UPPER == "ABCDEFGHIJKLMNOPQRSTUVWXYZ"
LOWER == "abcdefghijklmnopqrstuvwxyz"
DIGITS == "0123456789"

UpperSet == {Char(UPPER, i) : i \in 1..Len(UPPER)}
LowerSet == {Char(LOWER, i) : i \in 1..Len(LOWER)}
DigitSet == {Char(DIGITS, i) : i \in 1..Len(DIGITS)}

IsUpper(c) == c \in UpperSet
IsLower(c) == c \in LowerSet
IsDigit(c) == c \in DigitSet
IsSpace(c) == c \in {" ", "\t", "\n"}
\* \w of the regular expressions
IsWord(c) == IsLower(c) \/ IsUpper(c) \/ IsDigit(c) \/ c = "_"

ToLower == [c \in UpperSet |-> Char(LOWER, CHOOSE i \in 1..Len(UPPER) : Char(UPPER, i) = c)]
ToUpper == [c \in LowerSet |-> Char(UPPER, CHOOSE i \in 1..Len(LOWER) : Char(LOWER, i) = c)]

LowerChar(c) == IF IsUpper(c) THEN ToLower[c] ELSE c
UpperChar(c) == IF IsLower(c) THEN ToUpper[c] ELSE c

RECURSIVE Lower(_)
\* str.lower()
Lower(t) == IF t = "" THEN "" ELSE LowerChar(Head(t)) \o Lower(Tail(t))

RECURSIVE Replace(_, _, _)
\* str.replace(old, new), old not empty: every occurrence, left to right
Replace(t, old, new) ==
    LET i == IndexOf(t, old)
    IN  IF i = 0 THEN t
        ELSE Slice(t, 1, i - 1) \o new
               \o Replace(Slice(t, i + Len(old), Len(t)), old, new)

\* str.strip()
Strip(t) ==
    LET S == {i \in 1..Len(t) : ~IsSpace(Char(t, i))}
    IN  IF S = {} THEN "" ELSE Slice(t, Min(S), Max(S))

RECURSIVE SkipWhile(_, _, _)
\* the first index from i on whose character is whitespace (sp = TRUE) or is
\* not (sp = FALSE); Len(t) + 1 when there is none
SkipWhile(t, i, sp) ==
    IF i > Len(t) \/ IsSpace(Char(t, i)) = sp THEN i ELSE SkipWhile(t, i + 1, sp)

RECURSIVE SplitFrom(_, _)
\* the words of t from the start b of a word on
SplitFrom(t, b) ==
    LET Word(e) == <<Slice(t, b, e - 1)>> \o SplitFrom(t, SkipWhile(t, e, FALSE))
    IN  IF b > Len(t) THEN <<>> ELSE Word(SkipWhile(t, b, TRUE))

\* str.split(): the maximal runs of non-whitespace characters
Split(t) == SplitFrom(t, SkipWhile(t, 1, FALSE))

RECURSIVE JoinSpace(_)
\* ' '.join(words)
JoinSpace(ws) ==
    IF ws = <<>> THEN ""
    ELSE IF Len(ws) = 1 THEN ws[1]
    ELSE ws[1] \o " " \o JoinSpace(Tail(ws))

\* str.title() of a lower-case word without separators
Title(t) == IF t = "" THEN "" ELSE UpperChar(Head(t)) \o Tail(t)

\* last index of the maximal run of digits that starts at i (i - 1: no digit)
DigitRunEnd(t, i) ==
    LET N == {j \in i..Len(t) : ~IsDigit(Char(t, j))}
    IN  IF N = {} THEN Len(t) ELSE Min(N) - 1

DigitVal(c) == (CHOOSE i \in 1..Len(DIGITS) : Char(DIGITS, i) = c) - 1

RECURSIVE ParseInt(_)
\* int() of a string of digits ("" is read as 0 by the callers below)
ParseInt(s) ==
    IF s = "" THEN 0
    ELSE 10 * ParseInt(Slice(s, 1, Len(s) - 1)) + DigitVal(Char(s, Len(s)))

RECURSIVE IntStr(_)
\* str(n), n >= 0
IntStr(n) ==
    IF n < 10 THEN Char(DIGITS, n + 1)
    ELSE IntStr(n \div 10) \o Char(DIGITS, (n % 10) + 1)

\* float(s) for s matching \d+\.?\d*, in hundredths: exact for the amounts
\* with at most two fractional digits, which are the ones the model feeds it
ParseFloat(s) ==
    LET e == DigitRunEnd(s, 1)
        frac == Slice(s, e + 2, Len(s))
        f2 == Slice(frac \o "00", 1, 2)
    IN  100 * ParseInt(Slice(s, 1, e)) + ParseInt(f2)

\* f"{amount:.2f}" of an amount held in hundredths
Fmt2f(a) ==
    IntStr(a \div 100) \o "." \o IntStr((a % 100) \div 10) \o IntStr(a % 10)

-----------------------------------------------------------------------------
(* Calendar dates: datetime values at day granularity                      *)

Date(y, m, d) == [y |-> y, m |-> m, d |-> d]

IsLeap(y) == (y % 4 = 0 /\ y % 100 # 0) \/ y % 400 = 0

DaysIn(y, m) ==
    IF m = 2 THEN (IF IsLeap(y) THEN 29 ELSE 28)
    ELSE IF m \in {4, 6, 9, 11} THEN 30 ELSE 31

ValidDate(dt) == dt.m \in 1..12 /\ dt.d \in 1..DaysIn(dt.y, dt.m)

\* dt - timedelta(days=1)
PrevDay(dt) ==
    IF dt.d > 1 THEN Date(dt.y, dt.m, dt.d - 1)
    ELSE IF dt.m > 1 THEN Date(dt.y, dt.m - 1, DaysIn(dt.y, dt.m - 1))
    ELSE Date(dt.y - 1, 12, 31)

RECURSIVE MinusDays(_, _)
\* dt - timedelta(days=n)
MinusDays(dt, n) == IF n = 0 THEN dt ELSE MinusDays(PrevDay(dt), n - 1)

\* a > b on datetimes: a is midnight of its day and b is some time of its day
DateGT(a, b) ==
    \/ a.y > b.y
    \/ a.y = b.y /\ a.m > b.m
    \/ a.y = b.y /\ a.m = b.m /\ a.d > b.d

Pad(s, n) == IF Len(s) >= n THEN s ELSE Slice("0000", 1, n - Len(s)) \o s

\* dt.strftime("%Y-%m-%d")
strftime(dt) ==
    Pad(IntStr(dt.y), 4) \o "-" \o Pad(IntStr(dt.m), 2) \o "-" \o Pad(IntStr(dt.d), 2)

-----------------------------------------------------------------------------
(* extract_date_from_text: its regular expression and dateutil's parser    *)

\* \b between positions i - 1 and i of t
WordBoundary(t, i) ==
    LET before == i > 1 /\ i - 1 <= Len(t) /\ IsWord(Char(t, i - 1))
        after == i >= 1 /\ i <= Len(t) /\ IsWord(Char(t, i))
    IN  before # after

\* n digits stand at i
DigitsAt(t, i, n) ==
    i + n - 1 <= Len(t) /\ \A k \in i..(i + n - 1) : IsDigit(Char(t, k))

\* \s+ at i: the index after the run of whitespace, 0 when there is none
AfterSpaces(t, i) ==
    IF i > Len(t) \/ ~IsSpace(Char(t, i)) THEN 0
    ELSE LET N == {j \in i..Len(t) : ~IsSpace(Char(t, j))}
         IN  IF N = {} THEN Len(t) + 1 ELSE Min(N)

\* jan(?:uary)?|feb(?:ruary)?|...: the abbreviation and the optional rest
MONTHS == <<
    <<"jan", "uary">>, <<"feb", "ruary">>, <<"mar", "ch">>, <<"apr", "il">>,
    <<"may", "">>, <<"jun", "e">>, <<"jul", "y">>, <<"aug", "ust">>,
    <<"sep", "tember">>, <<"oct", "ober">>, <<"nov", "ember">>, <<"dec", "ember">> >>

\* the month whose abbreviation stands at i (0: none)
MonthAt(t, i) ==
    LET K == {k \in 1..Len(MONTHS) : Slice(t, i, i + 2) = MONTHS[k][1]}
    IN  IF K = {} THEN 0 ELSE Min(K)

\* index after the month name at i read in its long form (long = 1) or as
\* the abbreviation alone (long = 0); 0 when that form does not stand there
AfterMonth(t, i, long) ==
    LET After(k) ==
            IF k = 0 THEN 0
            ELSE IF long = 0 THEN i + 3
            ELSE IF Slice(t, i + 3, i + 2 + Len(MONTHS[k][2])) = MONTHS[k][2]
                 THEN i + 3 + Len(MONTHS[k][2])
                 ELSE 0
    IN  After(MonthAt(t, i))

\* (?:st|nd|rd|th) stands at i
OrdinalAt(t, i) == Slice(t, i, i + 1) \in {"st", "nd", "rd", "th"}

YearLens == <<4, 3, 2, 0>>

\* the first positive entry of f, whose domain lists the regex engine's
\* choices in the order it tries them (0: every choice fails)
FirstMatch(f) ==
    LET N == {n \in DOMAIN f : f[n] > 0}
    IN  IF N = {} THEN 0 ELSE f[Min(N)]

\* \d{1,2}[-/]\d{1,2}(?:[-/]\d{2,4})? at i, then \b: the greedy choices are
\* numbered in the order the regex engine tries them; the result is the index
\* of the last character matched (0: no match)
NumericDateAt(t, i) ==
    LET Try(a, b, yl) ==
            LET Rest(p1, p2, e) ==
                    IF /\ DigitsAt(t, i, a)
                       /\ Char(t, p1) \in {"-", "/"}
                       /\ DigitsAt(t, p1 + 1, b)
                       /\ (yl > 0 => Char(t, p2) \in {"-", "/"} /\ DigitsAt(t, p2 + 1, yl))
                       /\ WordBoundary(t, e + 1)
                    THEN e ELSE 0
            IN  Rest(i + a, i + a + 1 + b,
                     IF yl = 0 THEN i + a + b ELSE i + a + 1 + b + yl)
    IN  FirstMatch([n \in 0..15 |->
            Try(2 - (n \div 8), 2 - ((n \div 4) % 2), YearLens[(n % 4) + 1])])

\* \d{1,2}(?:st|nd|rd|th)?\s+(?:of\s+)?MONTH at i, then \b
DayMonthAt(t, i) ==
    LET Try(a, ord, of, long) ==
            LET End(p5) == IF p5 > 0 /\ WordBoundary(t, p5) THEN p5 - 1 ELSE 0
                Month(p4) == IF p4 = 0 THEN 0 ELSE End(AfterMonth(t, p4, long))
                Of(p3) == IF of = 0 \/ p3 = 0 THEN Month(p3)
                          ELSE IF Slice(t, p3, p3 + 1) = "of"
                               THEN Month(AfterSpaces(t, p3 + 2)) ELSE 0
            IN  IF DigitsAt(t, i, a) /\ (ord = 1 => OrdinalAt(t, i + a))
                THEN Of(AfterSpaces(t, i + a + 2 * ord)) ELSE 0
    IN  FirstMatch([n \in 0..15 |->
            Try(2 - (n \div 8), 1 - ((n \div 4) % 2), 1 - ((n \div 2) % 2), 1 - (n % 2))])

\* MONTH\s+\d{1,2}(?:st|nd|rd|th)?(?:\s+\d{2,4})? at i, then \b
MonthDayAt(t, i) ==
    LET Try(long, b, ord, yl) ==
            LET End(e) == IF WordBoundary(t, e + 1) THEN e ELSE 0
                Year(p4, p5) ==
                    IF yl = 0 THEN End(p4 - 1)
                    ELSE IF p5 > 0 /\ DigitsAt(t, p5, yl) THEN End(p5 + yl - 1) ELSE 0
                Day(p2) ==
                    IF p2 > 0 /\ DigitsAt(t, p2, b) /\ (ord = 1 => OrdinalAt(t, p2 + b))
                    THEN Year(p2 + b + 2 * ord, AfterSpaces(t, p2 + b + 2 * ord))
                    ELSE 0
                Spaces(p1) == IF p1 = 0 THEN 0 ELSE Day(AfterSpaces(t, p1))
            IN  Spaces(AfterMonth(t, i, long))
    IN  FirstMatch([n \in 0..31 |->
            Try(1 - (n \div 16), 2 - ((n \div 8) % 2), 1 - ((n \div 4) % 2),
                YearLens[(n % 4) + 1])])

\* the match of \b(numeric|day month|month day)\b at i: its last index, or 0
DateMatchAt(t, i) ==
    IF ~WordBoundary(t, i) THEN 0
    ELSE FirstMatch(<<NumericDateAt(t, i), DayMonthAt(t, i), MonthDayAt(t, i)>>)

\* re.search(...).group(0): the leftmost match, "" when there is none
date_match(t) ==
    LET Leftmost(ends) ==
            LET S == {i \in DOMAIN ends : ends[i] > 0}
            IN  IF S = {} THEN "" ELSE Slice(t, Min(S), ends[Min(S)])
    IN  Leftmost([i \in 1..Len(t) |-> DateMatchAt(t, i)])

NoDate == [ok |-> FALSE, y |-> 0, m |-> 0, d |-> 0]
Parsed(y, m, d) ==
    IF ValidDate(Date(y, m, d)) THEN [ok |-> TRUE, y |-> y, m |-> m, d |-> d]
    ELSE NoDate

\* dateutil's parser.parse(s, fuzzy=True) on a string date_match returns.
\* Missing fields come from the default, today at midnight.  Modelled for
\* "M/D", "M-D" (month first), the same with a four-digit year, and the
\* month-name forms with no year or a four-digit year; ok = FALSE stands for
\* the ValueError of an impossible date (and for the shapes not modelled:
\* day-first numbers, years of two or three digits).
parser_parse(s, now) ==
    IF IsDigit(Char(s, 1)) THEN
        LET a == DigitRunEnd(s, 1)
            n1 == ParseInt(Slice(s, 1, a))
        IN  IF Char(s, a + 1) \in {"-", "/"} THEN
                LET b == DigitRunEnd(s, a + 2)
                    n2 == ParseInt(Slice(s, a + 2, b))
                    ys == Slice(s, b + 2, Len(s))
                IN  IF ys = "" THEN Parsed(now.y, n1, n2)
                    ELSE IF Len(ys) = 4 THEN Parsed(ParseInt(ys), n1, n2)
                    ELSE NoDate
            ELSE
                LET K == {k \in 1..Len(MONTHS) : Contains(s, MONTHS[k][1])}
                IN  IF K = {} THEN NoDate ELSE Parsed(now.y, Min(K), n1)
    ELSE
        LET k == MonthAt(s, 1)
            D == {i \in 1..Len(s) : IsDigit(Char(s, i))}
        IN  IF k = 0 \/ D = {} THEN NoDate
            ELSE LET b == DigitRunEnd(s, Min(D))
                     n == ParseInt(Slice(s, Min(D), b))
                     Y == {i \in (b + 1)..Len(s) : IsDigit(Char(s, i))}
                 IN  IF Y = {} THEN Parsed(now.y, k, n)
                     ELSE IF Len(s) - Min(Y) + 1 = 4
                          THEN Parsed(ParseInt(Slice(s, Min(Y), Len(s))), k, n)
                          ELSE NoDate

\* parsed_date.replace(year=y): ok = FALSE is the ValueError of 29 February
ReplaceYear(p, y) == Parsed(y, p.m, p.d)

\* ClampDate without the second comparison of lines 114-115
ClampDate_single_check(p0, now) ==
    IF ~p0.ok THEN NoDate
    ELSE IF DateGT(p0, now) THEN ReplaceYear(p0, now.y)
    ELSE p0

\* lines 107-115: the parsed date after the year-1900 and future-date rules;
\* ok = FALSE where the code leaves the try block for the default
ClampDate(p0, now) ==
    LET Future(p2) ==
            IF ~p2.ok THEN NoDate
            ELSE IF DateGT(p2, now) THEN NoDate
            ELSE p2
        Checked(p1) ==
            IF ~p1.ok THEN NoDate
            ELSE IF DateGT(p1, now) THEN Future(ReplaceYear(p1, now.y))
            ELSE p1
    IN  Checked(IF p0.ok /\ p0.y = 1900 THEN ReplaceYear(p0, now.y) ELSE p0)

\* lines 101-117 of extract_date_from_text: the explicit date found in the
\* text, as a date; ok = FALSE when the code falls through to the default
ExplicitDate(text, now) ==
    LET Parse(s) == IF s = "" THEN NoDate ELSE ClampDate(parser_parse(s, now), now)
    IN  Parse(date_match(text))

\* extract_date with the explicit date read before the relative words
extract_date_explicit_first(text0, now) ==
    LET Relative(text) ==
            IF Contains(text, "yesterday") THEN MinusDays(now, 1)
            ELSE IF Contains(text, "last week") THEN MinusDays(now, 7)
            ELSE now
        Explicit(text, p) == IF p.ok THEN Date(p.y, p.m, p.d) ELSE Relative(text)
    IN  Explicit(Lower(text0), ExplicitDate(Lower(text0), now))

\* the date of extract_date_from_text(text), before strftime
extract_date(text0, now) ==
    LET Explicit(p) == IF p.ok THEN Date(p.y, p.m, p.d) ELSE now
        Relative(text) ==
            IF Contains(text, "yesterday") THEN MinusDays(now, 1)
            ELSE IF Contains(text, "today") THEN now
            ELSE IF Contains(text, "tomorrow") THEN now
            ELSE IF Contains(text, "last week") THEN MinusDays(now, 7)
            ELSE IF Contains(text, "next week") THEN now
            ELSE Explicit(ExplicitDate(text, now))
    IN  Relative(Lower(text0))

extract_date_from_text(text, now) == strftime(extract_date(text, now))

-----------------------------------------------------------------------------
(* Regular expressions of expense_agent                                    *)

NoMatch == [matched |-> FALSE, group0 |-> "", group1 |-> ""]

\* amount_match that reads a missing amount as 0 instead of failing
amount_match_default(t) ==
    IF \E i \in 1..Len(t) : IsDigit(Char(t, i))
    THEN [matched |-> FALSE, group0 |-> "", group1 |-> ""]
    ELSE [matched |-> TRUE, group0 |-> "0", group1 |-> "0"]

\* re.search(r'\$?(\d+\.?\d*)', t): leftmost start, then greedy
amount_match(t) ==
    LET S == {i \in 1..Len(t) :
                \/ IsDigit(Char(t, i))
                \/ Char(t, i) = "$" /\ IsDigit(Char(t, i + 1))}
    IN  IF S = {} THEN NoMatch
        ELSE LET i == Min(S)
                 g == IF Char(t, i) = "$" THEN i + 1 ELSE i
                 e1 == DigitRunEnd(t, g)
                 e2 == IF Char(t, e1 + 1) = "." THEN DigitRunEnd(t, e1 + 2) ELSE e1
             IN  [matched |-> TRUE, group0 |-> Slice(t, i, e2), group1 |-> Slice(t, g, e2)]

\* [a-f0-9-]
IsIdChar(c) == IsDigit(c) \/ c \in {"a", "b", "c", "d", "e", "f", "-"}

\* where the group of (?:id|ID):\s*([a-f0-9-]+) starts when the regex is
\* tried at i (0: it does not match there)
IdGroupAt(t, i) ==
    IF Slice(t, i, i + 2) \in {"id:", "ID:"}
    THEN LET N == {j \in (i + 3)..Len(t) : ~IsSpace(Char(t, j))}
         IN  IF N # {} /\ IsIdChar(Char(t, Min(N))) THEN Min(N) ELSE 0
    ELSE 0

\* id_match without the marker: the first run of [a-f0-9-] anywhere
id_match_unmarked(t) ==
    LET S == {i \in 1..Len(t) : IsIdChar(Char(t, i))}
    IN  IF S = {} THEN NoMatch
        ELSE LET g == Min(S)
                 N == {j \in g..Len(t) : ~IsIdChar(Char(t, j))}
                 e == IF N = {} THEN Len(t) ELSE Min(N) - 1
             IN  [matched |-> TRUE, group0 |-> Slice(t, g, e), group1 |-> Slice(t, g, e)]

\* re.search(r'(?:id|ID):\s*([a-f0-9-]+)', t)
id_match(t) ==
    LET S == {i \in 1..Len(t) : IdGroupAt(t, i) > 0}
    IN  IF S = {} THEN NoMatch
        ELSE LET g == IdGroupAt(t, Min(S))
                 N == {j \in g..Len(t) : ~IsIdChar(Char(t, j))}
                 e == IF N = {} THEN Len(t) ELSE Min(N) - 1
             IN  [matched |-> TRUE, group0 |-> Slice(t, Min(S), e), group1 |-> Slice(t, g, e)]

-----------------------------------------------------------------------------
(* The category tables of expense_agent, in dict order                     *)

Cat(name, keywords) == [name |-> name, keywords |-> keywords]

\* the table of the update branch and of the add branch (the same literal)
categories == <<
    Cat("transportation", <<"transport", "cab", "taxi", "uber", "lyft", "ride", "auto", "rickshaw">>),
    Cat("food", <<"food", "lunch", "dinner", "breakfast", "meal", "restaurant", "grocery", "snack", "cafe", "kfc">>),
    Cat("electronics", <<"electronics", "gadget", "device", "computer", "phone", "laptop", "tv", "television">>),
    Cat("entertainment", <<"entertainment", "movie", "game", "concert", "show", "theatre", "sports">>),
    Cat("utilities", <<"utility", "electricity", "water", "internet", "phone bill", "gas", "broadband">>),
    Cat("healthcare", <<"health", "medical", "doctor", "medicine", "pharmacy", "hospital", "clinic">>),
    Cat("shopping", <<"shopping", "clothes", "clothing", "shoes", "accessories", "fashion">>) >>

\* the table of the list branch: transportation has three more variations
categories_list ==
    [categories EXCEPT ![1] = Cat("transportation",
        <<"transport", "tranport", "tranportation", "cab", "taxi", "uber", "lyft", "ride", "auto", "rickshaw">>)]

\* for cat in categories.keys(): if cat in text: found_category = cat; break
ExactCategory(cats, text) ==
    LET K == {k \in 1..Len(cats) : Contains(text, cats[k].name)}
    IN  IF K = {} THEN "" ELSE cats[Min(K)].name

\* any(keyword in text for keyword in keywords)
AnyKeywordIn(keywords, text) ==
    \E n \in 1..Len(keywords) : Contains(text, keywords[n])

\* any(keyword == word for keyword in keywords for word in words)
AnyKeywordIsWord(keywords, words) ==
    \E n \in 1..Len(keywords) : \E w \in 1..Len(words) : keywords[n] = words[w]

\* variant: the keyword loop of lines 285-291 never matches
KeywordCategory_none(cats, text) == ""

\* for cat, keywords in categories.items(): if any(...): found_category = cat; break
KeywordCategory(cats, text) ==
    LET K == {k \in 1..Len(cats) : AnyKeywordIn(cats[k].keywords, text)}
    IN  IF K = {} THEN "" ELSE cats[Min(K)].name

\* the list branch tries the whole-word test on user_query.split(), then the
\* substring test, per category
KeywordCategoryList(cats, text) ==
    LET First(words) ==
            LET K == {k \in 1..Len(cats) :
                        \/ AnyKeywordIsWord(cats[k].keywords, words)
                        \/ AnyKeywordIn(cats[k].keywords, text)}
            IN  IF K = {} THEN "" ELSE cats[Min(K)].name
    IN  First(Split(text))

\* found_category with the keyword loop run before the loop over the names
found_category_keywords_first(text) ==
    IF KeywordCategory(categories, text) # "" THEN KeywordCategory(categories, text)
    ELSE ExactCategory(categories, text)

\* found_category of the update and add branches: exact names first, then
\* keywords only "if not found_category"
found_category(text) ==
    IF ExactCategory(categories, text) # "" THEN ExactCategory(categories, text)
    ELSE KeywordCategory(categories, text)

\* found_category of the list branch
found_category_list(text) ==
    IF ExactCategory(categories_list, text) # "" THEN ExactCategory(categories_list, text)
    ELSE KeywordCategoryList(categories_list, text)

-----------------------------------------------------------------------------
(* Configuration and the two expense stores                                *)

NoEnv == "<unset>"

\* os.getenv('USER_ID', 'default_user')
getenv_USER_ID == IF USER_ID = NoEnv THEN "default_user" ELSE USER_ID

\* supabase_manager = SupabaseManager(): self.user_id of the shared instance
manager_user_id == getenv_USER_ID

\* the row SupabaseManager.add_expense inserts
SupabaseRow(expense_id, expense_data) ==
    [expense_id |-> expense_id,
     user_id |-> manager_user_id,
     amount |-> expense_data.amount,
     currency |-> expense_data.currency,
     category |-> expense_data.category,
     subcategory |-> expense_data.subcategory,
     description |-> expense_data.description,
     date |-> expense_data.date,
     payment_method |-> expense_data.payment_method,
     is_recurring |-> expense_data.is_recurring,
     tags |-> expense_data.tags,
     created_at |-> strftime(today)]

\* the dict DataManager.add_expense appends: expense_data.update({...})
LocalRow(expense_id, expense_data) ==
    [expense_id |-> expense_id,
     amount |-> expense_data.amount,
     currency |-> expense_data.currency,
     category |-> expense_data.category,
     subcategory |-> expense_data.subcategory,
     description |-> expense_data.description,
     date |-> expense_data.date,
     payment_method |-> expense_data.payment_method,
     is_recurring |-> expense_data.is_recurring,
     tags |-> expense_data.tags,
     created_at |-> strftime(today)]

RECURSIVE ApplyUpdates(_, _)
\* dict.update(updates), updates a sequence of <<key, value>>
ApplyUpdates(row, updates) ==
    IF updates = <<>> THEN row
    ELSE ApplyUpdates((updates[1][1] :> updates[1][2]) @@ row, Tail(updates))

\* variant: the update is applied to every row of the file
DataManager_update_every(file, expense_id, updates) ==
    [found |-> TRUE, file |-> [k \in 1..Len(file) |-> ApplyUpdates(file[k], updates)]]

\* DataManager.update_expense: the first row with the id is updated in place
\* and the file rewritten; found = FALSE leaves the file as it is
DataManager_update_expense(file, expense_id, updates) ==
    LET K == {k \in 1..Len(file) : file[k].expense_id = expense_id}
    IN  IF K = {} THEN [found |-> FALSE, file |-> file]
        ELSE [found |-> TRUE,
              file |-> [file EXCEPT ![Min(K)] = ApplyUpdates(file[Min(K)], updates)]]

\* json.dumps of a flat dict of strings
RECURSIVE json_members(_)
json_members(pairs) ==
    IF pairs = <<>> THEN ""
    ELSE "\"" \o pairs[1][1] \o "\": \"" \o pairs[1][2] \o "\""
           \o (IF Len(pairs) > 1 THEN ", " ELSE "") \o json_members(Tail(pairs))

json_dumps(pairs) == "{" \o json_members(pairs) \o "}"

\* variant: a parser that rejects nothing and keeps the text as one member
json_loads_lenient(s) == [ok |-> TRUE, pairs |-> << <<"raw", s>> >>]

\* json.loads of a flat object of strings: ok = FALSE is JSONDecodeError
json_loads(s) ==
    LET Q == {i \in 1..Len(s) : Char(s, i) = "\""}
        n == Cardinality(Q)
        q == [k \in 1..n |-> CHOOSE x \in Q : Cardinality({y \in Q : y <= x}) = k]
        m == n \div 4
        wellformed ==
            /\ Len(s) >= 2 /\ Char(s, 1) = "{" /\ Char(s, Len(s)) = "}"
            /\ n % 4 = 0
            /\ (n = 0 => Strip(Slice(s, 2, Len(s) - 1)) = "")
            /\ n > 0 => /\ q[1] = 2 /\ q[n] = Len(s) - 1
                        /\ \A j \in 1..m :
                              /\ Slice(s, q[4 * j - 2] + 1, q[4 * j - 1] - 1) = ": "
                              /\ j < m => Slice(s, q[4 * j] + 1, q[4 * j + 1] - 1) = ", "
    IN  IF wellformed
        THEN [ok |-> TRUE,
              pairs |-> [j \in 1..m |->
                           <<Slice(s, q[4 * j - 3] + 1, q[4 * j - 2] - 1),
                             Slice(s, q[4 * j - 1] + 1, q[4 * j] - 1)>>]]
        ELSE [ok |-> FALSE, pairs |-> <<>>]

-----------------------------------------------------------------------------
(* mcp_tools/expense_tools: the data-access tools expense_agent calls      *)

\* str(e) of the exception SupabaseManager raises when the database refuses
\* the statement (add_expense line 118, get_expenses line 180)
DB_ERROR == "Database error: Failed to insert expense into Supabase"
QUERY_ERROR == "Database error: query failed"

\* add_expense that reports the id drawn first, whichever store took the row
add_expense_first_id(amount, category, description, date, id1, id2, insert_ok, reinit_ok) ==
    LET expense_data ==
            [amount |-> amount, currency |-> "USD", category |-> Lower(category),
             subcategory |-> "", description |-> description, date |-> date,
             payment_method |-> "credit", is_recurring |-> FALSE, tags |-> <<>>]
        ret == "Expense of $" \o Fmt2f(amount) \o " for '" \o description
                 \o "' added with ID: " \o id1
        client1 == client \/ (creds /\ reinit_ok)
    IN  IF client1 /\ insert_ok THEN
            [ret |-> ret,
             table |-> Append(expenses_table, SupabaseRow(id1, expense_data)),
             file |-> expenses_file,
             client |-> client1]
        ELSE
            [ret |-> ret,
             table |-> expenses_table,
             file |-> Append(expenses_file, LocalRow(id2, expense_data)),
             client |-> client1]

\* add_expense(amount, category, description, date): the tool's return value
\* and the stores after it.  id1 is the uuid SupabaseManager.add_expense
\* draws, id2 the one DataManager.add_expense draws; insert_ok says whether
\* the insert comes back with data, reinit_ok whether create_client succeeds
\* when the tool retries _initialize_client().
add_expense(amount, category, description, date, id1, id2, insert_ok, reinit_ok) ==
    LET date1 == IF date = "" THEN strftime(today) ELSE date
        expense_data ==
            [amount |-> amount, currency |-> "USD", category |-> Lower(category),
             subcategory |-> "", description |-> description, date |-> date1,
             payment_method |-> "credit", is_recurring |-> FALSE, tags |-> <<>>]
        head == "Expense of $" \o Fmt2f(amount) \o " for '" \o description \o "' added to "
        client1 == client \/ (creds /\ reinit_ok)
    IN  IF client1 /\ insert_ok THEN
            [ret |-> head \o "Supabase with ID: " \o id1,
             table |-> Append(expenses_table, SupabaseRow(id1, expense_data)),
             file |-> expenses_file,
             client |-> client1]
        ELSE IF client1 THEN
            [ret |-> head \o "local storage with ID: " \o id2
                       \o " (Database error: " \o DB_ERROR \o ")",
             table |-> expenses_table,
             file |-> Append(expenses_file, LocalRow(id2, expense_data)),
             client |-> client1]
        ELSE
            [ret |-> head \o "local storage with ID: " \o id2 \o " (Supabase not available)",
             table |-> expenses_table,
             file |-> Append(expenses_file, LocalRow(id2, expense_data)),
             client |-> client1]

\* update_expense(expense_id, updates): only DataManager's file is consulted
update_expense(expense_id, updates) ==
    LET update_data == json_loads(updates)
        r == DataManager_update_expense(expenses_file, expense_id, update_data.pairs)
    IN  IF ~update_data.ok THEN [ret |-> "Invalid JSON format for updates.", file |-> expenses_file]
        ELSE IF r.found
             THEN [ret |-> "Expense " \o expense_id \o " updated successfully.", file |-> r.file]
             ELSE [ret |-> "Expense " \o expense_id \o " not found.", file |-> expenses_file]

-----------------------------------------------------------------------------
(* mcp_tools/meeting_tools: update_meeting and the meetings file           *)

\* datetime.now().isoformat() at the start of the working day
isoformat(now) == strftime(now) \o "T09:00:00"

\* DataManager.update_meeting: the first meeting with the id is updated in
\* place, stamped and the file rewritten; found = FALSE leaves the file
DataManager_update_meeting(file, meeting_id, updates, now) ==
    LET K == {k \in 1..Len(file) : file[k].meeting_id = meeting_id}
        Stamp(row) == [row EXCEPT !.updated_at = isoformat(now)]
    IN  IF K = {} THEN [found |-> FALSE, file |-> file]
        ELSE [found |-> TRUE,
              file |-> [file EXCEPT ![Min(K)] = Stamp(ApplyUpdates(file[Min(K)], updates))]]

update_meeting(meeting_id, updates) ==
    LET update_data == json_loads(updates)
        r == DataManager_update_meeting(meetings_file, meeting_id, update_data.pairs, today)
    IN  IF ~update_data.ok THEN [ret |-> "Invalid JSON format for updates.", file |-> meetings_file]
        ELSE IF r.found
             THEN [ret |-> "Meeting " \o meeting_id \o " updated successfully.", file |-> r.file]
             ELSE [ret |-> "Meeting " \o meeting_id \o " not found.", file |-> meetings_file]

\* SupabaseManager.get_expenses(filters): rows of the manager's user, and of
\* the category when filters has one
SupabaseManager_get_expenses(category) ==
    LET Keep(e) == e.user_id = manager_user_id
                   /\ (category # "all" => e.category = Strip(Lower(category)))
    IN  SelectSeq(expenses_table, Keep)

\* the JSON fallback of list_expenses: every row of the file, filtered
DataManager_filtered(category) ==
    LET Keep(e) == category # "all" => e.category = Lower(category)
    IN  SelectSeq(expenses_file, Keep)

DateKey(d) == ParseInt(Replace(d, "-", ""))

RECURSIVE SortByDateDesc(_)
\* expenses.sort(key=lambda x: x["date"], reverse=True): stable
SortByDateDesc(es) ==
    IF es = <<>> THEN <<>>
    ELSE LET rest == SortByDateDesc(Tail(es))
             K == {k \in 1..Len(rest) : DateKey(rest[k].date) > DateKey(es[1].date)}
             n == IF K = {} THEN 0 ELSE Max(K)
         IN  SubSeq(rest, 1, n) \o <<es[1]>> \o SubSeq(rest, n + 1, Len(rest))

RECURSIVE SumAmounts(_)
SumAmounts(es) == IF es = <<>> THEN 0 ELSE es[1].amount + SumAmounts(Tail(es))

RECURSIVE FormatExpenses(_)
\* the per-expense lines of list_expenses (subcategory and tags are empty
\* for every row the model stores)
FormatExpenses(es) ==
    IF es = <<>> THEN ""
    ELSE "$" \o Fmt2f(es[1].amount) \o " - " \o es[1].description \o "\n"
           \o " " \o es[1].date \o "\n"
           \o "   Category: " \o Title(es[1].category) \o "\n"
           \o "Payment: " \o Title(es[1].payment_method) \o "\n"
           \o "ID: " \o es[1].expense_id \o "\n\n"
           \o FormatExpenses(Tail(es))

\* list_expenses(category=...): query_ok says whether the Supabase query
\* succeeds when the client is connected
list_expenses(category, query_ok) ==
    LET use_db == client /\ query_ok
        expenses == IF use_db THEN SupabaseManager_get_expenses(category)
                    ELSE DataManager_filtered(category)
        data_source == IF use_db THEN "Supabase"
                       ELSE IF client THEN "Local Storage (DB Error: " \o QUERY_ERROR \o ")"
                       ELSE "Local Storage"
        sorted == SortByDateDesc(expenses)
    IN  IF expenses = <<>> THEN "No expenses found for the specified criteria."
        ELSE "Found " \o IntStr(Len(expenses)) \o " expense(s) | Total: $"
               \o Fmt2f(SumAmounts(expenses)) \o " | Source: " \o data_source \o "\n\n"
               \o FormatExpenses(sorted)

\* filter_expenses(category): imported by expense_server from expense_tools,
\* which does not define it; modelled from its caller as the category listing
filter_expenses(category, query_ok) == list_expenses(category, query_ok)

-----------------------------------------------------------------------------
(* servers/expense_server: expense_agent                                   *)

ASK_ID == "Please provide the expense ID to update (e.g., 'update expense ID: xxx to transportation')"
ASK_CATEGORY == "Could not determine which category to update to. Please specify a category."
ASK_AMOUNT == "Could not find an amount in your request. Please specify the amount (e.g., $50)."

help_message ==
    "**Expense Tracker Help**\n\nPlease use one of these formats:\n"
    \o "1. Add expense: \n"
    \o "   - \"Add $50 for electronics\" (uses today's date)\n"
    \o "   - \"Spent $25 on food yesterday\"\n"
    \o "   - \"Add $100 for shopping on March 15th\"\n"
    \o "2. View expenses:\n"
    \o "   - \"Show my food expenses\"\n"
    \o "   - \"Filter transportation expenses\"\n"
    \o "   - \"List expenses in transportation category\"\n"
    \o "   - \"Show all expenses\" (no category filter)\n"
    \o "3. Update expense:\n"
    \o "   - \"Update expense ID: xxx to transportation\"\n"
    \o "   - \"Change expense ID: xxx to food\"\n"
    \o "4. Get summary: \"Show expense summary\"\n\n"
    \o "Available categories: electronics, food, transportation, entertainment, utilities, healthcare, shopping"

update_words == <<"update", "change", "fix">>
list_words == <<"show", "list", "spent", "how much", "what's", "whats", "my", "filter">>
add_words == <<"$", "add", "spent">>

\* variant: a handler that answers with the help text once the local file
\* has grown
Branch_by_store(user_query) ==
    IF Len(expenses_file) > 1 THEN "help"
    ELSE IF AnyKeywordIn(update_words, user_query) THEN "update"
    ELSE IF AnyKeywordIn(list_words, user_query) THEN "list"
    ELSE IF AnyKeywordIn(add_words, user_query) THEN "add"
    ELSE "help"

\* variant: the chain without its final else, the add branch taking its place
Branch_no_else(user_query) ==
    IF AnyKeywordIn(update_words, user_query) THEN "update"
    ELSE IF AnyKeywordIn(list_words, user_query) THEN "list"
    ELSE "add"

\* the if / elif / elif / else chain of expense_agent (lines 131, 189, 246, 316)
Branch(user_query) ==
    IF AnyKeywordIn(update_words, user_query) THEN "update"
    ELSE IF AnyKeywordIn(list_words, user_query) THEN "list"
    ELSE IF AnyKeywordIn(add_words, user_query) THEN "add"
    ELSE "help"

NoRun == [branch |-> "none", category |-> "", amount |-> 0, description |-> "",
          date |-> "", expense_id |-> "", raised |-> FALSE]

Call(fn, a1, a2) == [fn |-> fn, arg |-> a1, arg2 |-> a2]

\* the update branch, lines 131-186
expense_agent_update ==
    LET user_query == Lower(inbox)
        m == id_match(user_query)
        fc == found_category(user_query)
        updates == json_dumps(<< <<"category", Lower(fc)>>, <<"date", strftime(today)>> >>)
        r == update_expense(m.group1, updates)
    IN  /\ phase = "sent"
        /\ Branch(user_query) = "update"
        /\ phase' = "done"
        /\ IF m.matched /\ fc # "" THEN
               /\ run' = [NoRun EXCEPT !.branch = "update", !.expense_id = m.group1,
                                       !.category = fc, !.date = strftime(today)]
               /\ calls' = <<Call("update_expense", m.group1, updates)>>
               /\ expenses_file' = r.file
               /\ out' = <<"Updated expense " \o m.group1 \o " to category: " \o fc>>
           ELSE IF m.matched THEN
               /\ run' = [NoRun EXCEPT !.branch = "update_no_category", !.expense_id = m.group1]
               /\ calls' = <<>>
               /\ expenses_file' = expenses_file
               /\ out' = <<ASK_CATEGORY>>
           ELSE
               /\ run' = [NoRun EXCEPT !.branch = "update_no_id"]
               /\ calls' = <<>>
               /\ expenses_file' = expenses_file
               /\ out' = <<ASK_ID>>
        /\ UNCHANGED <<USER_ID, creds, client, expenses_table, meetings_file, today, food_logs, food_logs_table, threads, history, inbox,
                       sent_user>>

\* the list branch, lines 189-243
expense_agent_list ==
    LET user_query == Lower(inbox)
        fc == found_category_list(user_query)
    IN  /\ phase = "sent"
        /\ Branch(user_query) = "list"
        /\ phase' = "done"
        /\ run' = [NoRun EXCEPT !.branch = "list", !.category = fc]
        /\ \E query_ok \in (IF client THEN BOOLEAN ELSE {TRUE}) :
           \E filter_ok \in (IF fc # "" THEN BOOLEAN ELSE {TRUE}) :
              IF fc # "" /\ filter_ok THEN
                  /\ calls' = <<Call("filter_expenses", fc, "")>>
                  /\ out' = <<"Filtering expenses for category: " \o Title(fc) \o "\n\n"
                                \o filter_expenses(fc, query_ok)>>
              ELSE IF fc # "" THEN
                  /\ calls' = <<Call("filter_expenses", fc, ""),
                                Call("list_expenses", Lower(fc), "")>>
                  /\ out' = <<list_expenses(Lower(fc), query_ok)>>
              ELSE
                  /\ calls' = <<Call("list_expenses", "all", "")>>
                  /\ out' = <<list_expenses("all", query_ok)>>
        /\ UNCHANGED <<USER_ID, creds, client, expenses_table, expenses_file, meetings_file,
                   today, food_logs, food_logs_table, threads, history,
                       inbox, sent_user>>

\* str(e) of the exception add_expense raises when its opening print (line 50
\* of expense_tools, outside the try) cannot write to standard output
STDOUT_ERROR == "[Errno 32] Broken pipe"

\* str(e) of the UnboundLocalError line 348 raises
UNBOUND_RESPONSE == "cannot access local variable 'response' where it is not associated with a value"

IdPool == {"e1a0-4b1c", "e2b1-4c2d"}

\* lines 302-310 of the add branch: the call of add_expense and the response
add_branch_call(amount, category, description, expense_date) ==
    LET Ran(raised) ==
            [NoRun EXCEPT !.branch = "add", !.category = category,
                          !.amount = amount, !.description = description,
                          !.date = expense_date, !.raised = raised]
        Respond(r) ==
            /\ out' = <<r.ret>>
            /\ client' = r.client
            /\ expenses_table' = r.table
            /\ expenses_file' = r.file
    IN  /\ calls' = <<Call("add_expense", category, description)>>
        /\ \/ \E id1 \in IdPool : \E id2 \in IdPool \ {id1} :
              \E insert_ok \in (IF client \/ creds THEN BOOLEAN ELSE {TRUE}) :
              \E reinit_ok \in (IF ~client /\ creds THEN BOOLEAN ELSE {TRUE}) :
                  \* lines 303-310: the result is yielded and the handler returns
                  /\ run' = Ran(FALSE)
                  /\ Respond(add_expense(amount, category, description, expense_date,
                                         id1, id2, insert_ok, reinit_ok))
           \/ \* lines 311-313 yield the error and do not return; line 348 then
              \* reads the unassigned local `response`, and lines 350-352 yield
              \* the text of that second exception
              /\ run' = Ran(TRUE)
              /\ out' = <<"Error adding expense: " \o STDOUT_ERROR,
                          " Error in Expense Tracker: " \o UNBOUND_RESPONSE>>
              /\ UNCHANGED <<client, expenses_table, expenses_file>>

\* lines 258-299 of the add branch: date, category and description are read
\* from the text the amount was removed from
add_branch_parse(amount, text_without_amount) ==
    LET Category(fc) == IF fc # "" THEN fc ELSE "other"
    IN  add_branch_call(amount,
                        Category(found_category(text_without_amount)),
                        JoinSpace(Split(text_without_amount)),
                        extract_date_from_text(text_without_amount, today))

\* the add branch, lines 246-313
expense_agent_add ==
    LET Amount(user_query, m) ==
            IF ~m.matched THEN
                /\ run' = [NoRun EXCEPT !.branch = "add_no_amount"]
                /\ calls' = <<>>
                /\ out' = <<ASK_AMOUNT>>
                /\ UNCHANGED <<client, expenses_table, expenses_file>>
            ELSE
                add_branch_parse(ParseFloat(m.group1),
                                 Strip(Replace(user_query, m.group0, "")))
        Query(user_query) ==
            /\ Branch(user_query) = "add"
            /\ Amount(user_query, amount_match(user_query))
    IN  /\ phase = "sent"
        /\ Query(Lower(inbox))
        /\ phase' = "done"
        /\ UNCHANGED <<USER_ID, creds, meetings_file, today, food_logs, food_logs_table, threads, history, inbox, sent_user>>

\* the default branch, lines 316-336
expense_agent_help ==
    /\ phase = "sent"
    /\ Branch(Lower(inbox)) = "help"
    /\ phase' = "done"
    /\ run' = [NoRun EXCEPT !.branch = "help"]
    /\ calls' = <<>>
    /\ out' = <<help_message>>
    /\ UNCHANGED <<USER_ID, creds, client, expenses_table, expenses_file, meetings_file,
                   today, food_logs, food_logs_table, threads, history,
                   inbox, sent_user>>

expense_agent ==
    \/ expense_agent_update
    \/ expense_agent_list
    \/ expense_agent_add
    \/ expense_agent_help

-----------------------------------------------------------------------------
(* servers/orchestrator_server: the tool that forwards to expense_tracker  *)

\* [a-zA-Z0-9_-]
IsUserChar(c) == IsLower(c) \/ IsUpper(c) \/ IsDigit(c) \/ c \in {"_", "-"}

RECURSIVE UserRunEnd(_, _)
\* the last index of the greedy ([a-zA-Z0-9_-]+) that starts at i
UserRunEnd(t, i) ==
    IF i + 1 <= Len(t) /\ IsUserChar(Char(t, i + 1)) THEN UserRunEnd(t, i + 1) ELSE i

\* the keyword w stands at i; tl is the lower-cased text (re.IGNORECASE)
WordAt(tl, i, w) == i >= 1 /\ Slice(tl, i, i + Len(w) - 1) = w

\* the result of re.search for one pattern, given the start of group 1 for
\* every index at which the pattern matches: the leftmost match's group
SearchGroup(t, starts) ==
    IF starts = {} THEN NoMatch
    ELSE [matched |-> TRUE, group0 |-> "",
          group1 |-> Slice(t, Min(starts), UserRunEnd(t, Min(starts)))]

\* (?:for\s+)?user\s*:\s*([a-zA-Z0-9_-]+): the optional prefix does not move
\* the group, so the leftmost match is the leftmost "user : x"
user_pattern1(t, tl) ==
    LET Group(g) == IF IsUserChar(Char(t, g)) THEN g ELSE 0
        Colon(p) == IF Char(t, p) = ":" THEN Group(SkipWhile(t, p + 1, FALSE)) ELSE 0
        At(i) == IF WordAt(tl, i, "user") THEN Colon(SkipWhile(t, i + 4, FALSE)) ELSE 0
    IN  SearchGroup(t, {At(i) : i \in 1..Len(t)} \ {0})

\* ([a-zA-Z0-9_-]+)\'?s?\s+(?:KEYWORDS): patterns 2 and 4.  The group is the
\* run of name characters from i; after it come the optional 's and the
\* whitespace, then one of the keywords
possessive_pattern(t, tl, keywords) ==
    LET Keyword(q) == \E k \in 1..Len(keywords) : WordAt(tl, q, keywords[k])
        Space(p) == IsSpace(Char(t, p)) /\ Keyword(SkipWhile(t, p, FALSE))
        AfterGroup(e) ==
            \/ Space(e + 1)
            \/ Char(t, e + 1) = "'" /\ Space(e + 2)
            \/ Char(t, e + 1) = "'" /\ Char(tl, e + 2) = "s" /\ Space(e + 3)
        At(i) == IsUserChar(Char(t, i)) /\ AfterGroup(UserRunEnd(t, i))
    IN  SearchGroup(t, {i \in 1..Len(t) : At(i)})

\* (?:my\s+)?expenses?\s+(?:as\s+|for\s+)([a-zA-Z0-9_-]+) and
\* (?:meetings?|schedule|calendar)\s+(?:for\s+)([a-zA-Z0-9_-]+): patterns 3
\* and 5, heads the keywords (with whether an optional s may follow), preps
\* the prepositions
prepositional_pattern(t, tl, heads, preps) ==
    LET Group(g) == IF g <= Len(t) /\ IsUserChar(Char(t, g)) THEN g ELSE 0
        Prep(q) ==
            LET K == {k \in 1..Len(preps) :
                        /\ WordAt(tl, q, preps[k])
                        /\ IsSpace(Char(t, q + Len(preps[k])))}
            IN  IF K = {} THEN 0
                ELSE Group(SkipWhile(t, q + Len(preps[Min(K)]), FALSE))
        Space(p) == IF IsSpace(Char(t, p)) THEN Prep(SkipWhile(t, p, FALSE)) ELSE 0
        Plural(p, s) == IF s /\ Char(tl, p) = "s" THEN Space(p + 1) ELSE Space(p)
        At(i) ==
            LET K == {k \in 1..Len(heads) : WordAt(tl, i, heads[k][1])}
            IN  IF K = {} THEN 0 ELSE Plural(i + Len(heads[Min(K)][1]), heads[Min(K)][2])
    IN  SearchGroup(t, {At(i) : i \in 1..Len(t)} \ {0})

\* the first of the five patterns that matches gives the user id; none: the
\* environment's USER_ID, else 'default_user'
extract_user_id_from_query(query) ==
    LET First(ms) ==
            LET K == {k \in 1..Len(ms) : ms[k].matched}
            IN  IF K = {} THEN getenv_USER_ID ELSE ms[Min(K)].group1
        Search(tl) ==
            First(<<user_pattern1(query, tl),
                    possessive_pattern(query, tl, <<"expense", "spending", "cost">>),
                    prepositional_pattern(query, tl, << <<"expense", TRUE>> >>, <<"as", "for">>),
                    possessive_pattern(query, tl, <<"meeting", "schedule", "calendar">>),
                    prepositional_pattern(query, tl,
                        << <<"meeting", TRUE>>, <<"schedule", FALSE>>, <<"calendar", FALSE>> >>,
                        <<"for">>)>>)
    IN  Search(Lower(query))

\* phrases an utterance is made of
Vocab == {"update expense ID: a1f0", "change", "delete expense ID: a1f0", "show",
          "Add $50 for electronics", "I spent $12.50 on coffee", "add",
          "taxi", "food", "summary", "$20 for rent"}

MaxWords == 2

\* the utterances of at most MaxWords phrases, joined by single spaces
Utterances ==
    {JoinSpace(ws) : ws \in UNION {[1..n -> Vocab] : n \in 0..MaxWords}}

\* values of the tool's user_id argument ("" is its default)
ToolUsers == {"", "alice"}

\* QueryExpenseAgentTool._run(query, user_id) up to client.run_sync, lines 98-111
QueryExpenseAgentTool_run(query, user_id) ==
    /\ phase = "idle"
    /\ phase' = "sent"
    /\ sent_user' = user_id
    /\ inbox' = IF /\ user_id # "" /\ user_id # getenv_USER_ID
                   /\ ~Contains(Lower(query), "for user:")
                   /\ ~Contains(Lower(query), "user:")
                THEN query \o " for user: " \o user_id
                ELSE query
    /\ UNCHANGED <<USER_ID, creds, client, expenses_table, expenses_file, meetings_file,
                   today, food_logs, food_logs_table, threads, history,
                   run, calls, out>>

-----------------------------------------------------------------------------
(* The expense pipeline: one request against a seeded store                *)

SeedMeetings == <<
    [meeting_id |-> "m001", title |-> "Team Standup", date |-> "2026-11-02",
     time |-> "09:00", duration_minutes |-> 30, attendees |-> <<>>, location |-> "",
     description |-> "Daily sync", status |-> "scheduled",
     created_at |-> "2026-10-28T09:00:00", updated_at |-> "2026-10-28T09:00:00"] >>

SeedTable == <<
    [expense_id |-> "b2e1-4d3e", user_id |-> "alice", amount |-> 2000, currency |-> "USD",
     category |-> "food", subcategory |-> "", description |-> "team lunch",
     date |-> "2026-10-30", payment_method |-> "credit", is_recurring |-> FALSE,
     tags |-> <<>>, created_at |-> "2026-10-30"],
    [expense_id |-> "c3d2-4e4f", user_id |-> "default_user", amount |-> 900, currency |-> "USD",
     category |-> "transportation", subcategory |-> "", description |-> "taxi home",
     date |-> "2026-10-31", payment_method |-> "credit", is_recurring |-> FALSE,
     tags |-> <<>>, created_at |-> "2026-10-31"] >>

SeedFile == <<
    [expense_id |-> "a1f0", amount |-> 1500, currency |-> "USD",
     category |-> "other", subcategory |-> "", description |-> "misc",
     date |-> "2026-10-29", payment_method |-> "credit", is_recurring |-> FALSE,
     tags |-> <<>>, created_at |-> "2026-10-29"] >>

Init ==
    /\ USER_ID \in {NoEnv, "bob"}
    /\ creds \in BOOLEAN
    /\ client \in {c \in BOOLEAN : c => creds}
    /\ expenses_table = SeedTable
    /\ expenses_file = SeedFile
    /\ meetings_file = SeedMeetings
    /\ today = Date(2026, 11, 1)
    /\ history = <<>>
    /\ food_logs = <<>>
    /\ food_logs_table = <<>>
    /\ threads = <<>>
    /\ phase = "idle"
    /\ inbox = ""
    /\ sent_user = ""
    /\ run = NoRun
    /\ calls = <<>>
    /\ out = <<>>

Next ==
    \/ \E query \in Utterances : \E user_id \in ToolUsers :
          QueryExpenseAgentTool_run(query, user_id)
    \/ expense_agent

Spec == Init /\ [][Next]_vars

-----------------------------------------------------------------------------
(* extract_user_id_from_query applied to one utterance                     *)

UserVocab == {"list", "my", "expenses", "show", "meetings", "spending",
              "alice's", "for user: bob", "for alice"}

MaxUserWords == 3

UserUtterances ==
    {JoinSpace(ws) : ws \in UNION {[1..n -> UserVocab] : n \in 0..MaxUserWords}}

\* the value orchestrator_agent assigns to extracted_user_id (line 184)
extract_user_id_call ==
    /\ phase = "user_id"
    /\ phase' = "user_id_done"
    /\ out' = <<extract_user_id_from_query(inbox)>>
    /\ UNCHANGED <<USER_ID, creds, client, expenses_table, expenses_file, meetings_file,
                   today, food_logs, food_logs_table, threads, history,
                   inbox, sent_user, run, calls>>

InitUserId ==
    /\ USER_ID \in {NoEnv, "bob"}
    /\ inbox \in UserUtterances
    /\ phase = "user_id"
    /\ creds = FALSE
    /\ client = FALSE
    /\ expenses_table = <<>>
    /\ expenses_file = <<>>
    /\ meetings_file = <<>>
    /\ today = Date(2026, 11, 1)
    /\ history = <<>>
    /\ food_logs = <<>>
    /\ food_logs_table = <<>>
    /\ threads = <<>>
    /\ sent_user = ""
    /\ run = NoRun
    /\ calls = <<>>
    /\ out = <<>>

NextUserId == extract_user_id_call

SpecUserId == InitUserId /\ [][NextUserId]_vars

-----------------------------------------------------------------------------
(* extract_date_from_text applied to one text on one day                   *)

DateVocab == {"yesterday", "tomorrow", "today", "last week", "next week",
              "3/15/2030", "12/25", "March 15th", "15th of december", "feb 29",
              "on food"}

MaxDateWords == 2

DateTexts ==
    {JoinSpace(ws) : ws \in UNION {[1..n -> DateVocab] : n \in 0..MaxDateWords}}

\* the days datetime.now() falls on
Todays == {Date(2026, 11, 1), Date(2026, 3, 1), Date(2027, 1, 1), Date(2024, 2, 29)}

\* expense_date = extract_date_from_text(text) (line 262)
extract_date_call ==
    /\ phase = "date"
    /\ phase' = "date_done"
    /\ out' = <<extract_date_from_text(inbox, today)>>
    /\ UNCHANGED <<USER_ID, creds, client, expenses_table, expenses_file, meetings_file,
                   today, food_logs, food_logs_table, threads, history,
                   inbox, sent_user, run, calls>>

InitDate ==
    /\ today \in Todays
    /\ history = <<>>
    /\ food_logs = <<>>
    /\ food_logs_table = <<>>
    /\ threads = <<>>
    /\ inbox \in DateTexts
    /\ phase = "date"
    /\ USER_ID = NoEnv
    /\ creds = FALSE
    /\ client = FALSE
    /\ expenses_table = <<>>
    /\ expenses_file = <<>>
    /\ meetings_file = <<>>
    /\ sent_user = ""
    /\ run = NoRun
    /\ calls = <<>>
    /\ out = <<>>

NextDate == extract_date_call

SpecDate == InitDate /\ [][NextDate]_vars

-----------------------------------------------------------------------------
(* servers/orchestrator_server: the four tools and orchestrator_agent.     *)
(* The crew is the code's call of crew.kickoff_async(): the language model *)
(* behind it decides which tools are called, in which order and with which *)
(* arguments, and what the final answer is.                                *)

\* how a call ends: with a returned string, or with an exception
Returned(s) == [raised |-> FALSE, value |-> s]
Raised(e) == [raised |-> TRUE, value |-> e]

\* what the collaborator behind a tool does: it answers, or the call to it fails
Answer(content) == [ok |-> TRUE, text |-> content]
Failure(error) == [ok |-> FALSE, text |-> error]

CONNECT_ERROR == "All connection attempts failed"
LLM_ERROR == "litellm.APIConnectionError"
INPUT_ERROR == "list index out of range"

Collaborators(name) == {Answer("reply of " \o name), Failure(CONNECT_ERROR)}

\* the query QueryExpenseAgentTool sends (lines 101-103)
expense_tool_query(query, user_id) ==
    IF /\ user_id # "" /\ user_id # getenv_USER_ID
       /\ ~Contains(Lower(query), "for user:")
       /\ ~Contains(Lower(query), "user:")
    THEN query \o " for user: " \o user_id
    ELSE query

QueryMeetingAgentTool(query, collaborator) ==
    IF collaborator.ok THEN Returned(collaborator.text)
    ELSE Returned("Unable to contact Meeting Manager: " \o collaborator.text)

QueryExpenseAgentTool(query, user_id, collaborator) ==
    IF collaborator.ok THEN Returned(collaborator.text)
    ELSE Returned("Unable to contact Expense Tracker: " \o collaborator.text)

QueryNotesAgentTool(query, collaborator) ==
    IF collaborator.ok THEN Returned(collaborator.text)
    ELSE Returned("Unable to contact Notes Agent: " \o collaborator.text)

\* _run awaits HealthDietAgent().handle(query) with no try around it
QueryHealthDietAgentTool(query, collaborator) ==
    IF collaborator.ok THEN Returned(collaborator.text)
    ELSE Raised(collaborator.text)

orchestrator_tools == <<"query_meeting_agent", "query_expense_agent",
                        "query_notes_agent", "query_health_diet_agent">>

ToolNames == {orchestrator_tools[k] : k \in 1..Len(orchestrator_tools)}

RunTool(name, query, user_id, collaborator) ==
    CASE name = "query_meeting_agent" -> QueryMeetingAgentTool(query, collaborator)
      [] name = "query_expense_agent" -> QueryExpenseAgentTool(query, user_id, collaborator)
      [] name = "query_notes_agent" -> QueryNotesAgentTool(query, collaborator)
      [] name = "query_health_diet_agent" -> QueryHealthDietAgentTool(query, collaborator)

\* one tool call of the crew, as it is kept in the trace
ToolCall(name, query, user_id, collaborator, r) ==
    [fn |-> name,
     arg |-> IF name = "query_expense_agent" THEN expense_tool_query(query, user_id) ELSE query,
     arg2 |-> user_id, ok |-> collaborator.ok, raised |-> r.raised, ret |-> r.value]

\* the Query Classification table of the coordinator's backstory (lines
\* 226-229): the tool of each domain and the words that name the domain
domain_keywords == <<
    [tool |-> "query_meeting_agent",
     keywords |-> <<"meeting", "schedule", "calendar", "appointment">>],
    [tool |-> "query_expense_agent",
     keywords |-> <<"expense", "spend", "cost", "money", "budget">>],
    [tool |-> "query_notes_agent",
     keywords |-> <<"note", "search", "organize", "complete">>],
    [tool |-> "query_health_diet_agent",
     keywords |-> <<"health", "diet", "fitness", "nutrition", "weight", "exercise", "meal",
                    "calorie", "workout", "food", "goal", "ate", "eat", "target">>] >>

\* variant: no except clause, the exception leaves the handler and nothing
\* is yielded
orchestrator_reraise(e) == <<>>

\* lines 380-382
orchestrator_except(e) == <<"Error in Personal Assistant: " \o e>>

\* requests made to the personal assistant
OrchUtterances == {"Add $50 expense and note it", "schedule a meeting",
                   "show expenses for user: alice", "what did I eat today", "hello"}

\* the most tool calls the crew makes for one request
MaxToolCalls == 2

\* a final answer of the language model that repeats no tool result
LLM_ANSWER == "Here is what I found."

\* a final answer that lists every tool result under the name of its tool
RECURSIVE Composed(_)
Composed(cs) ==
    IF cs = <<>> THEN ""
    ELSE "[" \o Head(cs).fn \o "] " \o Head(cs).ret \o "\n" \o Composed(Tail(cs))

\* lines 181-372: the query is read, the user id extracted, the crew built
orchestrator_agent_begin(user_query) ==
    /\ phase = "orch_idle"
    /\ phase' = "crew"
    /\ inbox' = user_query
    /\ sent_user' = extract_user_id_from_query(user_query)
    /\ run' = [NoRun EXCEPT !.branch = "orchestrator"]
    /\ UNCHANGED <<USER_ID, creds, client, expenses_table, expenses_file, meetings_file,
                   today, food_logs, food_logs_table, threads, history,
                   calls, out>>

\* line 183 on a request without a message: the IndexError is caught at 380
orchestrator_agent_no_input ==
    /\ phase = "orch_idle"
    /\ phase' = "orch_done"
    /\ run' = [NoRun EXCEPT !.branch = "orchestrator", !.raised = TRUE]
    /\ out' = orchestrator_except(INPUT_ERROR)
    /\ UNCHANGED <<USER_ID, creds, client, expenses_table, expenses_file, meetings_file,
                   today, food_logs, food_logs_table, threads, history,
                   inbox, sent_user, calls>>

\* line 375, one tool call of the crew: the tool returns, or it raises and
\* the crew either hands the error back to the language model or lets it
\* leave kickoff_async, where line 380 catches it
crew_tool_call ==
    /\ phase = "crew"
    /\ Len(calls) < MaxToolCalls
    /\ \E name \in ToolNames : \E user_id \in {"", sent_user} :
       \E collaborator \in Collaborators(name) : \E absorbed \in BOOLEAN :
          LET Step(r) ==
                  /\ calls' = Append(calls, ToolCall(name, inbox, user_id, collaborator, r))
                  /\ IF r.raised /\ ~absorbed
                     THEN /\ phase' = "orch_done"
                          /\ run' = [run EXCEPT !.raised = TRUE]
                          /\ out' = orchestrator_except(r.value)
                     ELSE UNCHANGED <<phase, run, out>>
          IN  /\ (name # "query_expense_agent") => user_id = ""
              /\ Step(RunTool(name, inbox, user_id, collaborator))
    /\ UNCHANGED <<USER_ID, creds, client, expenses_table, expenses_file, meetings_file,
                   today, food_logs, food_logs_table, threads, history,
                   inbox, sent_user>>

\* lines 375-378: the crew ends and str(result) is yielded
crew_finish ==
    /\ phase = "crew"
    /\ phase' = "orch_done"
    /\ \E result \in {LLM_ANSWER, Composed(calls)}
                        \cup {calls[k].ret : k \in 1..Len(calls)} :
          out' = <<result>>
    /\ UNCHANGED <<USER_ID, creds, client, expenses_table, expenses_file, meetings_file,
                   today, food_logs, food_logs_table, threads, history,
                   inbox, sent_user, run, calls>>

\* line 375 raises (the call of the language model fails): lines 380-382
crew_raise ==
    /\ phase = "crew"
    /\ phase' = "orch_done"
    /\ run' = [run EXCEPT !.raised = TRUE]
    /\ out' = orchestrator_except(LLM_ERROR)
    /\ UNCHANGED <<USER_ID, creds, client, expenses_table, expenses_file, meetings_file,
                   today, food_logs, food_logs_table, threads, history,
                   inbox, sent_user, calls>>

orchestrator_agent ==
    \/ \E user_query \in OrchUtterances : orchestrator_agent_begin(user_query)
    \/ orchestrator_agent_no_input
    \/ crew_tool_call
    \/ crew_finish
    \/ crew_raise

InitOrch ==
    /\ USER_ID \in {NoEnv, "bob"}
    /\ creds = FALSE
    /\ client = FALSE
    /\ expenses_table = SeedTable
    /\ expenses_file = SeedFile
    /\ meetings_file = SeedMeetings
    /\ today = Date(2026, 11, 1)
    /\ history = <<>>
    /\ food_logs = <<>>
    /\ food_logs_table = <<>>
    /\ threads = <<>>
    /\ phase = "orch_idle"
    /\ inbox = ""
    /\ sent_user = ""
    /\ run = NoRun
    /\ calls = <<>>
    /\ out = <<>>

NextOrch == orchestrator_agent

SpecOrch == InitOrch /\ [][NextOrch]_vars

-----------------------------------------------------------------------------
(* update_expense and update_meeting called as tools, one call after       *)
(* another, on the seeded files                                            *)

\* updates strings json.loads rejects with JSONDecodeError
InvalidUpdates == {"", "not json", "{category: food}", "{\"category\": \"food\"",
                   "{\"category\" \"food\"}", "{'category': 'food'}"}

\* updates strings json.loads accepts
ValidUpdates == {"{}", json_dumps(<< <<"category", "food">> >>),
                 json_dumps(<< <<"title", "Sync">>, <<"time", "10:00">> >>)}

UpdateIds == {"a1f0", "m001", "zzzz"}

\* the most tool calls in one run
MaxUpdates == 2

update_expense_call(expense_id, updates) ==
    LET Respond(r) ==
            /\ out' = <<r.ret>>
            /\ expenses_file' = r.file
    IN  /\ phase = "tools"
        /\ Len(calls) < MaxUpdates
        /\ calls' = Append(calls, Call("update_expense", expense_id, updates))
        /\ Respond(update_expense(expense_id, updates))
        /\ UNCHANGED <<USER_ID, creds, client, expenses_table, meetings_file, today, food_logs, food_logs_table, threads, history,
                       phase, inbox, sent_user, run>>

update_meeting_call(meeting_id, updates) ==
    LET Respond(r) ==
            /\ out' = <<r.ret>>
            /\ meetings_file' = r.file
    IN  /\ phase = "tools"
        /\ Len(calls) < MaxUpdates
        /\ calls' = Append(calls, Call("update_meeting", meeting_id, updates))
        /\ Respond(update_meeting(meeting_id, updates))
        /\ UNCHANGED <<USER_ID, creds, client, expenses_table, expenses_file, today, food_logs, food_logs_table, threads, history,
                       phase, inbox, sent_user, run>>

InitUpdate ==
    /\ USER_ID = NoEnv
    /\ creds = FALSE
    /\ client = FALSE
    /\ expenses_table = SeedTable
    /\ expenses_file = SeedFile
    /\ meetings_file = SeedMeetings
    /\ today = Date(2026, 11, 1)
    /\ history = <<>>
    /\ food_logs = <<>>
    /\ food_logs_table = <<>>
    /\ threads = <<>>
    /\ phase = "tools"
    /\ inbox = ""
    /\ sent_user = ""
    /\ run = NoRun
    /\ calls = <<>>
    /\ out = <<>>

NextUpdate ==
    \E id \in UpdateIds : \E updates \in InvalidUpdates \cup ValidUpdates :
        \/ update_expense_call(id, updates)
        \/ update_meeting_call(id, updates)

SpecUpdate == InitUpdate /\ [][NextUpdate]_vars

-----------------------------------------------------------------------------
(* expense_tracker answering one request after another on the same stores  *)

\* what the handler decided for the utterance
Decision == [branch |-> run.branch, category |-> run.category,
             amount |-> run.amount, expense_id |-> run.expense_id]

RoutingUtterances == {"update expense ID: a1f0 to food", "Add $50 for electronics",
                      "show food", "taxi", "add lunch", "change",
                      "update expense ID: a1f0", "Show all expenses",
                      "Show expense summary",
                      "update expense ID: c3d2-4e4f to food"}

\* the most requests the server answers in one run
MaxRequests == 2

\* the server is ready for the next request: the stores stay as the last
\* request left them, the locals of the handler are gone
next_request ==
    /\ phase = "done"
    /\ Len(history) < MaxRequests - 1
    /\ history' = Append(history, [inbox |-> inbox, decision |-> Decision])
    /\ phase' = "idle"
    /\ inbox' = ""
    /\ sent_user' = ""
    /\ run' = NoRun
    /\ calls' = <<>>
    /\ out' = <<>>
    /\ UNCHANGED <<USER_ID, creds, client, expenses_table, expenses_file,
                   meetings_file, today, food_logs, food_logs_table, threads>>

InitRouting ==
    /\ USER_ID = NoEnv
    /\ creds \in BOOLEAN
    /\ client = creds
    /\ expenses_table = SeedTable
    /\ expenses_file = SeedFile
    /\ meetings_file = SeedMeetings
    /\ today = Date(2026, 11, 1)
    /\ history = <<>>
    /\ food_logs = <<>>
    /\ food_logs_table = <<>>
    /\ threads = <<>>
    /\ phase = "idle"
    /\ inbox = ""
    /\ sent_user = ""
    /\ run = NoRun
    /\ calls = <<>>
    /\ out = <<>>

NextRouting ==
    \/ \E query \in RoutingUtterances : QueryExpenseAgentTool_run(query, "")
    \/ expense_agent
    \/ next_request

SpecRouting == InitRouting /\ [][NextRouting]_vars

\* both servers: requests to expense_tracker, one after another, or a
\* request to personal_assistant
InitAgents == InitRouting \/ InitOrch

NextAgents == NextRouting \/ NextOrch

SpecAgents == InitAgents /\ [][NextAgents]_vars

-----------------------------------------------------------------------------
(* Properties of the expense pipeline (Spec)                               *)

\* neither store differs from what it held before the request
StoresUnchanged == expenses_table = SeedTable /\ expenses_file = SeedFile

\* the lower-cased utterance expense_agent received
Utterance == Lower(inbox)

\* the capability the documented priority selects for a lower-cased utterance
IntendedCapability(q) ==
    IF AnyKeywordIn(<<"update", "change", "fix", "delete", "remove">>, q) THEN "update/delete"
    ELSE IF AnyKeywordIn(list_words, q) THEN "list"
    ELSE IF AnyKeywordIn(add_words, q) THEN "add"
    ELSE IF Contains(q, "summary") THEN "summary"
    ELSE "none"

\* the capability expense_agent ran
SelectedCapability ==
    CASE run.branch \in {"update", "update_no_category", "update_no_id"} -> "update/delete"
      [] run.branch = "list" -> "list"
      [] run.branch \in {"add", "add_no_amount"} -> "add"
      [] OTHER -> "none"

\* C1: every utterance is handled by the capability the priority selects:
\* update/change/fix/delete/remove first, then the list keywords, then the add
\* keywords, then the summary keyword.
C1_RoutingPriority ==
    phase = "done" => SelectedCapability = IntendedCapability(Utterance)

\* a delete request is answered with the help text
C1_Witness ==
    /\ phase = "done"
    /\ inbox = "delete expense ID: a1f0"
    /\ run.branch = "help"
    /\ out = <<help_message>>
    /\ StoresUnchanged

\* the indexes of the rows the request added to a store that held n rows
AddedRows(store, n) == (n + 1)..Len(store)

\* C3: a request that carries "for user: X" acts for X only: the expense it
\* adds is stored with user_id X, and its listing shows no expense of another
\* user.
C3_UserScoped ==
    (phase = "done" /\ sent_user # "" /\ Contains(inbox, "for user: " \o sent_user)) =>
        /\ \A k \in AddedRows(expenses_table, Len(SeedTable)) :
              expenses_table[k].user_id = sent_user
        /\ \A k \in AddedRows(expenses_file, Len(SeedFile)) :
              /\ "user_id" \in DOMAIN expenses_file[k]
              /\ expenses_file[k].user_id = sent_user
        /\ run.branch = "list" =>
              \A k \in 1..Len(SeedTable) :
                  SeedTable[k].user_id # sent_user
                      => ~Contains(out[1], SeedTable[k].expense_id)

\* alice's expense is stored in Supabase under the server's own user id
C3_Witness ==
    /\ phase = "done"
    /\ sent_user = "alice"
    /\ inbox = "Add $50 for electronics for user: alice"
    /\ Len(expenses_table) = Len(SeedTable) + 1
    /\ expenses_table[Len(expenses_table)].user_id = "default_user"

\* "I spent $<amount> on <thing>" or "Spent $<amount> on ..."
SpentForm(q) == WordAt(q, 1, "i spent $") \/ WordAt(q, 1, "spent $")

\* the first monetary token of q, in hundredths
FirstAmount(q) == ParseFloat(amount_match(q).group1)

\* C4: an utterance of the form "I spent $<amount> on <thing>" without an
\* update keyword is handled as add-expense: add_expense is called exactly
\* once, with the first monetary token as the amount and a description that
\* does not contain the token.
C4_SpentIsAdd ==
    (phase = "done" /\ SpentForm(Utterance) /\ ~AnyKeywordIn(update_words, Utterance)) =>
        /\ Len(calls) = 1
        /\ calls[1].fn = "add_expense"
        /\ run.amount = FirstAmount(Utterance)
        /\ ~Contains(run.description, amount_match(Utterance).group0)

\* the utterance is answered with a listing, and nothing is added
C4_Witness ==
    /\ phase = "done"
    /\ inbox = "I spent $12.50 on coffee"
    /\ calls = <<Call("list_expenses", "all", "")>>
    /\ StoresUnchanged

\* C5: an update/change/fix utterance without an "id:" marker is answered
\* with the request for the expense id; update_expense is not called and no
\* stored expense changes.
C5_UpdateWithoutId ==
    LET Holds(q) ==
            (AnyKeywordIn(update_words, q) /\ ~Contains(q, "id:")) =>
                /\ out = <<ASK_ID>>
                /\ calls = <<>>
                /\ StoresUnchanged
    IN  phase = "done" => Holds(Utterance)

C5_Witness ==
    /\ phase = "done"
    /\ AnyKeywordIn(update_words, Utterance)
    /\ ~Contains(Utterance, "id:")
    /\ Contains(Utterance, "food")
    /\ out = <<ASK_ID>>

\* an utterance the priority of the keywords gives to add-expense
AddIntent(q) ==
    /\ AnyKeywordIn(add_words, q)
    /\ ~AnyKeywordIn(update_words, q)
    /\ ~AnyKeywordIn(list_words, q)

HasDigit(q) == \E i \in 1..Len(q) : IsDigit(Char(q, i))

\* C6: an add-intent utterance without a numeric token is answered with the
\* request for the amount; add_expense is not called and nothing is stored.
C6_AddWithoutAmount ==
    LET Holds(q) ==
            (AddIntent(q) /\ ~HasDigit(q)) =>
                /\ out = <<ASK_AMOUNT>>
                /\ calls = <<>>
                /\ StoresUnchanged
    IN  phase = "done" => Holds(Utterance)

C6_Witness ==
    /\ phase = "done"
    /\ AddIntent(Utterance)
    /\ ~HasDigit(Utterance)
    /\ Contains(Utterance, "taxi")
    /\ out = <<ASK_AMOUNT>>

\* the category names that occur in q
NamedCategories(q) ==
    {categories[k].name : k \in {j \in 1..Len(categories) : Contains(q, categories[j].name)}}

\* C7: when the utterance contains the name of a category, the category the
\* expense tracker chooses is a category named in the utterance (the one
\* named, when there is one), whatever synonyms of other categories occur.
C7_ExactNameWins ==
    LET Holds(named) == named # {} => run.category \in named
    IN  (phase = "done" /\ run.branch \in {"update", "list", "add"}) =>
            Holds(NamedCategories(Utterance))

C7_Witness ==
    /\ phase = "done"
    /\ run.branch = "add"
    /\ NamedCategories(Utterance) = {"electronics"}
    /\ KeywordCategory(categories, Utterance) = "transportation"
    /\ run.category = "electronics"

\* the words and the explicit dates extract_date_from_text reads as a date
RelativeWords == <<"yesterday", "today", "tomorrow", "last week", "next week">>
NoDatePhrase(q) == ~AnyKeywordIn(RelativeWords, q) /\ date_match(q) = ""

\* the ids of the expenses the request stored
StoredIds ==
    {expenses_table[k].expense_id : k \in AddedRows(expenses_table, Len(SeedTable))}
        \cup {expenses_file[k].expense_id : k \in AddedRows(expenses_file, Len(SeedFile))}

CategorySet == {categories[k].name : k \in 1..Len(categories)} \cup {"other"}

\* a category name or a category keyword occurs in q
MentionsCategory(q) ==
    \E k \in 1..Len(categories) :
        Contains(q, categories[k].name) \/ AnyKeywordIn(categories[k].keywords, q)

\* C11: the category passed to add_expense is one of the eight categories,
\* and it is 'other' exactly when neither a category name nor a category
\* keyword occurs in the text; an add-intent utterance with an amount always
\* reaches add_expense, whatever the category search finds.
C11_ClosedCategorySet ==
    LET Holds(q) ==
            /\ (AddIntent(q) /\ HasDigit(q)) =>
                  (Len(calls) = 1 /\ calls[1].fn = "add_expense")
            /\ run.branch = "add" =>
                  /\ calls[1].arg \in CategorySet
                  /\ calls[1].arg = "other" <=> ~MentionsCategory(q)
    IN  phase = "done" => Holds(Utterance)

C11_Witness ==
    /\ phase = "done"
    /\ inbox = "add $20 for rent"
    /\ calls = <<Call("add_expense", "other", "add for rent")>>
    /\ Len(out) >= 1

\* q holds no update, list or add keyword
NoKeyword(q) ==
    /\ ~AnyKeywordIn(update_words, q)
    /\ ~AnyKeywordIn(list_words, q)
    /\ ~AnyKeywordIn(add_words, q)

\* C12: an utterance that holds none of the update, list and add keywords is
\* answered with the fixed help message, no data-access function is called
\* and the stores are left as they were.
C12_HelpFallback ==
    LET Holds(q) ==
            NoKeyword(q) =>
                /\ out = <<help_message>>
                /\ calls = <<>>
                /\ StoresUnchanged
    IN  phase = "done" => Holds(Utterance)

C12_Witness ==
    /\ phase = "done"
    /\ inbox = "taxi food"
    /\ NoKeyword(Utterance)
    /\ out = <<help_message>>

\* the calls of the trace that change a store
MutatingCalls == {k \in 1..Len(calls) : calls[k].fn \in {"add_expense", "update_expense"}}

\* C14: every utterance is answered with exactly one response message and
\* at most one mutating data-access call, also when that call raises.
C14_ExactlyOneResponse ==
    phase = "done" =>
        /\ Len(out) = 1
        /\ Cardinality(MutatingCalls) <= 1

\* add_expense raised: its error is yielded, and a second message follows
C14_Witness ==
    /\ phase = "done"
    /\ inbox = "Add $50 for electronics"
    /\ run.raised
    /\ Cardinality(MutatingCalls) = 1
    /\ Len(out) = 2
    /\ out[1] = "Error adding expense: " \o STDOUT_ERROR
    /\ out[2] = " Error in Expense Tracker: " \o UNBOUND_RESPONSE
    /\ StoresUnchanged

-----------------------------------------------------------------------------
(* Properties of extract_user_id_from_query (SpecUserId)                   *)

\* words that name no user
PlainWords == {"list", "my", "expenses", "show", "meetings", "spending"}

NamesNoUser(q) == \A k \in 1..Len(Split(q)) : Split(q)[k] \in PlainWords

\* C2: for an utterance that names no user, extract_user_id_from_query
\* returns the configured default user id, never a word of the utterance.
C2_DefaultUser ==
    (phase = "user_id_done" /\ NamesNoUser(inbox)) => out = <<getenv_USER_ID>>

\* the word before "expenses" is returned as the user id
C2_Witness ==
    /\ phase = "user_id_done"
    /\ inbox = "list my expenses"
    /\ out = <<"my">>

-----------------------------------------------------------------------------
(* Properties of extract_date_from_text (SpecDate)                         *)

\* the date a text's explicit date parses to (ok = FALSE: none)
ParsedExplicit ==
    IF date_match(Utterance) = "" THEN NoDate
    ELSE parser_parse(date_match(Utterance), today)

ExplicitFuture ==
    /\ ~AnyKeywordIn(RelativeWords, Utterance)
    /\ ParsedExplicit.ok
    /\ DateGT(ParsedExplicit, today)

NeverLater == DateKey(out[1]) <= DateKey(strftime(today))

\* 'tomorrow' and 'next week' give today's date (unless an earlier test of
\* the text, 'yesterday' or 'last week', decides)
FutureWordsAreToday ==
    /\ (Contains(Utterance, "tomorrow") /\ ~Contains(Utterance, "yesterday"))
          => out = <<strftime(today)>>
    /\ (/\ Contains(Utterance, "next week")
        /\ ~Contains(Utterance, "yesterday")
        /\ ~Contains(Utterance, "last week"))
          => out = <<strftime(today)>>

\* the same month and day in the current year
SameDayThisYear == Date(today.y, ParsedExplicit.m, ParsedExplicit.d)

C9_Yesterday ==
    (phase = "date_done" /\ Contains(Utterance, "yesterday")) =>
        out = <<strftime(PrevDay(today))>>

C9_Witness ==
    /\ phase = "date_done"
    /\ Contains(Utterance, "yesterday")
    /\ date_match(Utterance) # ""
    /\ today = Date(2027, 1, 1)
    /\ out = <<"2026-12-31">>

-----------------------------------------------------------------------------
(* Properties of the two handlers (SpecAgents, SpecOrch)                   *)

\* a handler has ended
Ended == phase \in {"done", "orch_done"}

\* C13: whatever the input and whichever tool, agent call or language-model
\* call fails, expense_agent and orchestrator_agent end having yielded a
\* response message, and the content of every message is a string.
C13_NoEscape ==
    Ended =>
        /\ Len(out) >= 1
        /\ \A k \in 1..Len(out) : out[k] \in STRING

\* the call of the language model failed and the handler answered
C13_Witness ==
    /\ phase = "orch_done"
    /\ inbox = "schedule a meeting"
    /\ calls = <<>>
    /\ run.raised
    /\ out = <<"Error in Personal Assistant: " \o LLM_ERROR>>

\* C15: when the collaborator behind one of the four orchestrator tools
\* fails, the tool returns an error string ("Unable to contact ...") and
\* raises nothing.
C15_ToolsReturnErrors ==
    \A k \in 1..Len(calls) :
        (calls[k].fn \in ToolNames /\ ~calls[k].ok) =>
            /\ ~calls[k].raised
            /\ Slice(calls[k].ret, 1, 17) = "Unable to contact"

\* the failure behind query_health_diet_agent left the tool as an exception
\* and ended the request before any other tool was called
C15_Witness ==
    /\ phase = "orch_done"
    /\ inbox = "what did I eat today"
    /\ Len(calls) = 1
    /\ calls[1].fn = "query_health_diet_agent"
    /\ ~calls[1].ok
    /\ calls[1].raised
    /\ out = <<"Error in Personal Assistant: " \o CONNECT_ERROR>>

\* the tools of the domains whose words occur in q, in table order
MatchedTools(q) ==
    LET Pick(ds) == SelectSeq(ds, LAMBDA d : AnyKeywordIn(d.keywords, Lower(q)))
    IN  [k \in 1..Len(Pick(domain_keywords)) |-> Pick(domain_keywords)[k].tool]

\* the tools the crew called, in call order
CalledTools == [k \in 1..Len(calls) |-> calls[k].fn]

\* C18: a request that matches two domains is answered by calling the
\* collaborator of each matched domain, in the order the domains matched, and
\* the response holds one labelled section per domain in that order.
C18_BothDomainsComposed ==
    (phase = "orch_done" /\ ~run.raised /\ Len(MatchedTools(inbox)) = 2) =>
        /\ CalledTools = MatchedTools(inbox)
        /\ out = <<Composed(calls)>>

\* a request with an expense word and a notes word, answered after a single
\* call of the expense tool with that tool's reply alone
C18_Witness ==
    /\ phase = "orch_done"
    /\ inbox = "Add $50 expense and note it"
    /\ MatchedTools(inbox) = <<"query_expense_agent", "query_notes_agent">>
    /\ CalledTools = <<"query_expense_agent">>
    /\ ~run.raised
    /\ out = <<"reply of query_expense_agent">>

-----------------------------------------------------------------------------
(* Properties of update_expense and update_meeting (SpecUpdate)            *)

\* C16: a call of update_expense or update_meeting whose updates string is
\* not valid JSON returns the "Invalid JSON format for updates" text and
\* leaves both files as they were.
C16_InvalidJsonRejected ==
    [][(/\ Len(calls') = Len(calls) + 1
        /\ calls'[Len(calls')].fn \in {"update_expense", "update_meeting"}
        /\ calls'[Len(calls')].arg2 \in InvalidUpdates) =>
           /\ Len(out') = 1
           /\ Contains(out'[1], "Invalid JSON format for updates")
           /\ expenses_file' = expenses_file
           /\ meetings_file' = meetings_file
           /\ expenses_table' = expenses_table]_vars

\* a stored meeting was changed by a valid update, and the malformed update
\* of the same meeting that followed was refused and changed nothing more
C16_Witness ==
    /\ Len(calls) = 2
    /\ calls[1] = Call("update_meeting", "m001", json_dumps(<< <<"title", "Sync">>, <<"time", "10:00">> >>))
    /\ calls[2] = Call("update_meeting", "m001", "{\"category\" \"food\"}")
    /\ out = <<"Invalid JSON format for updates.">>
    /\ meetings_file[1].title = "Sync"
    /\ meetings_file # SeedMeetings
    /\ expenses_file = SeedFile

-----------------------------------------------------------------------------
(* Properties of successive requests (SpecRouting)                         *)

CalledFunctions == [k \in 1..Len(calls) |-> calls[k].fn]

\* C19: "Show all expenses" is answered by list_expenses over all
\* categories; no category is selected and filter_expenses is not called.
C19_ShowAllUnfiltered ==
    (phase = "done" /\ inbox = "Show all expenses") =>
        /\ run.category = ""
        /\ calls = <<Call("list_expenses", "all", "")>>

\* the word "show" selected the entertainment category, and the request was
\* passed to filter_expenses
C19_Witness ==
    /\ phase = "done"
    /\ inbox = "Show all expenses"
    /\ history = <<>>
    /\ run.branch = "list"
    /\ run.category = "entertainment"
    /\ calls = <<Call("filter_expenses", "entertainment", "")>>
    /\ Contains(out[1], "Filtering expenses for category: Entertainment")

\* C20: "Show expense summary" is answered by get_expense_summary, not by a
\* listing of expenses.
C20_SummaryRequest ==
    (phase = "done" /\ inbox = "Show expense summary") =>
        CalledFunctions = <<"get_expense_summary">>

\* the request took the list branch; with filter_expenses failing, the
\* answer is the listing of the entertainment expenses
C20_Witness ==
    /\ phase = "done"
    /\ inbox = "Show expense summary"
    /\ history = <<>>
    /\ run.branch = "list"
    /\ CalledFunctions = <<"filter_expenses", "list_expenses">>
    /\ calls[2] = Call("list_expenses", "entertainment", "")

-----------------------------------------------------------------------------
(* SupabaseManager called directly, one operation after another, on an     *)
(* expenses table that holds rows of several users                         *)

\* variant: the query ignores its user_id argument
target_user_id_own(user_id) == manager_user_id

\* target_user_id = user_id or self.user_id
target_user_id(user_id) == IF user_id # "" THEN user_id ELSE manager_user_id

\* SupabaseManager.get_expenses(filters, user_id) on a connected client;
\* filters is the dict, a function on the keys it has
get_expenses(table, filters, user_id) ==
    LET Has(k) == k \in DOMAIN filters
        Keep(e) ==
            /\ e.user_id = target_user_id(user_id)
            /\ Has("start_date") => DateKey(e.date) >= DateKey(filters["start_date"])
            /\ Has("end_date") => DateKey(e.date) =< DateKey(filters["end_date"])
            /\ Has("category") => e.category = Strip(Lower(filters["category"]))
            /\ Has("min_amount") => e.amount >= filters["min_amount"]
            /\ Has("max_amount") => e.amount =< filters["max_amount"]
    IN  SortByDateDesc(SelectSeq(table, Keep))

\* the rows .eq("expense_id", expense_id) selects
WithId(table, expense_id) == {k \in 1..Len(table) : table[k].expense_id = expense_id}

\* variant: the delete reports the rows and leaves them in the table
delete_rows_kept(table, expense_id) ==
    [data |-> WithId(table, expense_id), table |-> table]

\* table("expenses").delete().eq("expense_id", expense_id).execute()
delete_rows(table, expense_id) ==
    LET Other(e) == e.expense_id # expense_id
    IN  [data |-> WithId(table, expense_id), table |-> SelectSeq(table, Other)]

\* table("expenses").update(updates).eq("expense_id", expense_id).execute()
update_rows(table, expense_id, updates) ==
    [data |-> WithId(table, expense_id),
     table |-> [k \in 1..Len(table) |->
                   IF table[k].expense_id = expense_id
                   THEN ApplyUpdates(table[k], updates) ELSE table[k]]]

NOT_INITIALIZED == "Supabase client not initialized. Check your credentials."

INSERT_FAILED == "Database error: Failed to insert expense into Supabase"

\* what one operation left behind: its name, argument and result
Op(fn, arg, raised, ret) == [fn |-> fn, arg |-> arg, raised |-> raised, ret |-> ret]

SeedUsersTable == SeedTable \o <<
    [expense_id |-> "d4c3-4f5a", user_id |-> "Alice", amount |-> 1200, currency |-> "USD",
     category |-> "food", subcategory |-> "", description |-> "groceries",
     date |-> "2026-10-30", payment_method |-> "credit", is_recurring |-> FALSE,
     tags |-> <<>>, created_at |-> "2026-10-30"] >>

DbExpenses == {
    [amount |-> 1000, currency |-> "USD", category |-> "Electronics",
     subcategory |-> "", description |-> "Test expense",
     date |-> "2026-11-01", payment_method |-> "test", is_recurring |-> FALSE,
     tags |-> <<>>] }

\* str(uuid.uuid4()): ids no row and no earlier call has had
DbIdPool == {"f6e5-4b7c", "a7f6-4c8d"}

IssuedIds == {history[k].ret : k \in {j \in 1..Len(history) :
                 history[j].fn = "add_expense" /\ ~history[j].raised}}

DbFilters == {<<>>, [category |-> " Food "],
              [start_date |-> "2026-10-30", end_date |-> "2026-10-31",
               min_amount |-> 1000, max_amount |-> 2000]}

DbUsers == {"", "alice", "Alice", "bob"}

DbIds == {"b2e1-4d3e", "zzzz"} \cup DbIdPool

DbUpdates == {<< <<"amount", 111>>, <<"description", "fixed">> >>}

\* the most operations in one run
MaxDbOps == 3

DbFrame == UNCHANGED <<USER_ID, creds, client, expenses_file, meetings_file, today, food_logs, food_logs_table, threads,
                       phase, inbox, sent_user, run, calls>>

\* an operation on a manager whose client is None raises before it does anything
db_not_connected(fn, arg) ==
    /\ ~client
    /\ history' = Append(history, Op(fn, arg, TRUE, NOT_INITIALIZED))
    /\ out' = <<>>
    /\ UNCHANGED expenses_table

db_add_expense(expense_data, expense_id, insert_ok) ==
    /\ phase = "db"
    /\ Len(history) < MaxDbOps
    /\ expense_id \notin IssuedIds
    /\ \/ db_not_connected("add_expense", expense_data)
       \/ /\ client
          /\ insert_ok
          /\ expenses_table' = Append(expenses_table, SupabaseRow(expense_id, expense_data))
          /\ history' = Append(history, Op("add_expense", expense_data, FALSE, expense_id))
          /\ out' = <<expense_id>>
       \/ /\ client
          /\ ~insert_ok
          /\ history' = Append(history, Op("add_expense", expense_data, TRUE, INSERT_FAILED))
          /\ out' = <<>>
          /\ UNCHANGED expenses_table
    /\ DbFrame

db_get_expenses(filters, user_id) ==
    /\ phase = "db"
    /\ Len(history) < MaxDbOps
    /\ \/ db_not_connected("get_expenses", user_id)
       \/ /\ client
          /\ out' = get_expenses(expenses_table, filters, user_id)
          /\ history' = Append(history, Op("get_expenses", user_id, FALSE, filters))
          /\ UNCHANGED expenses_table
    /\ DbFrame

db_update_expense(expense_id, updates) ==
    LET Done(r) ==
            /\ expenses_table' = r.table
            /\ history' = Append(history, Op("update_expense", expense_id, FALSE, r.data # {}))
            /\ out' = <<r.data # {}>>
    IN  /\ phase = "db"
        /\ Len(history) < MaxDbOps
        /\ \/ db_not_connected("update_expense", expense_id)
           \/ client /\ Done(update_rows(expenses_table, expense_id, updates))
        /\ DbFrame

db_delete_expense(expense_id) ==
    LET Done(r) ==
            /\ expenses_table' = r.table
            /\ history' = Append(history, Op("delete_expense", expense_id, FALSE, r.data # {}))
            /\ out' = <<r.data # {}>>
    IN  /\ phase = "db"
        /\ Len(history) < MaxDbOps
        /\ \/ db_not_connected("delete_expense", expense_id)
           \/ client /\ Done(delete_rows(expenses_table, expense_id))
        /\ DbFrame

InitDb ==
    /\ USER_ID \in {"alice", "Alice", "bob"}
    /\ creds \in BOOLEAN
    /\ client = creds
    /\ expenses_table = SeedUsersTable
    /\ expenses_file = SeedFile
    /\ meetings_file = SeedMeetings
    /\ today = Date(2026, 11, 1)
    /\ history = <<>>
    /\ food_logs = <<>>
    /\ food_logs_table = <<>>
    /\ threads = <<>>
    /\ phase = "db"
    /\ inbox = ""
    /\ sent_user = ""
    /\ run = NoRun
    /\ calls = <<>>
    /\ out = <<>>

NextDb ==
    \/ \E e \in DbExpenses : \E id \in DbIdPool : \E ok \in BOOLEAN : db_add_expense(e, id, ok)
    \/ \E f \in DbFilters : \E u \in DbUsers : db_get_expenses(f, u)
    \/ \E id \in DbIds : \E u \in DbUpdates : db_update_expense(id, u)
    \/ \E id \in DbIds : db_delete_expense(id)

SpecDb == InitDb /\ [][NextDb]_vars

-----------------------------------------------------------------------------
(* Properties of SupabaseManager, checked under SpecDb                     *)

LastOp == history[Len(history)]

\* C21: every expense get_expenses(filters, U) returns has user_id exactly U,
\* compared case-sensitively, whatever the filters are (with no U given the
\* manager's own user_id takes its place)
C21_OnlyOwnExpenses ==
    (history # <<>> /\ LastOp.fn = "get_expenses" /\ ~LastOp.raised) =>
        \A k \in 1..Len(out) :
            out[k].user_id = (IF LastOp.arg # "" THEN LastOp.arg ELSE manager_user_id)

\* a query for "alice" that returned rows while the table held a row of "Alice"
C21_Witness ==
    /\ history # <<>>
    /\ LastOp.fn = "get_expenses"
    /\ ~LastOp.raised
    /\ LastOp.arg = "alice"
    /\ out # <<>>
    /\ \E k \in 1..Len(expenses_table) : expenses_table[k].user_id = "Alice"
    /\ USER_ID = "bob"


\* the add_expense call that returned expense_id, as recorded in the history
AddOf(expense_id) ==
    CHOOSE j \in 1..Len(history) :
        history[j].fn = "add_expense" /\ ~history[j].raised /\ history[j].ret = expense_id

DeletedBefore(expense_id) ==
    \E j \in 1..Len(history) :
        /\ history[j].fn = "delete_expense"
        /\ ~history[j].raised
        /\ history[j].arg = expense_id
        /\ history[j].ret

\* C22: a delete_expense(id) with an id add_expense returned earlier returns
\* True and removes exactly the inserted row, every other row staying as it
\* was; once that is done a further delete_expense(id) returns False and
\* removes nothing
C22_IdIdentifiesInsertedRow ==
    [][ (/\ Len(history') = Len(history) + 1
         /\ history'[Len(history')].fn = "delete_expense"
         /\ ~history'[Len(history')].raised
         /\ history'[Len(history')].arg \in IssuedIds) =>
           LET id == history'[Len(history')].arg
               ret == history'[Len(history')].ret
               K == WithId(expenses_table, id)
               Other(e) == e.expense_id # id
           IN  IF DeletedBefore(id)
               THEN ret = FALSE /\ expenses_table' = expenses_table
               ELSE /\ ret = TRUE
                    /\ Cardinality(K) = 1
                    /\ \A k \in K :
                          /\ expenses_table[k].user_id = manager_user_id
                          /\ expenses_table[k].category = history[AddOf(id)].arg.category
                          /\ expenses_table[k].date = history[AddOf(id)].arg.date
                    /\ expenses_table' = SelectSeq(expenses_table, Other)
                    /\ Len(expenses_table') = Len(expenses_table) - 1 ]_vars

\* add_expense returned an id, delete_expense(id) returned True and a second
\* delete_expense(id) returned False
C22_Witness ==
    /\ Len(history) = 3
    /\ history[1].fn = "add_expense" /\ ~history[1].raised
    /\ \A k \in {2, 3} :
          /\ history[k].fn = "delete_expense"
          /\ ~history[k].raised
          /\ history[k].arg = history[1].ret
    /\ history[2].ret
    /\ ~history[3].ret
    /\ Len(expenses_table) = Len(SeedUsersTable)


\* C25: an update_expense or delete_expense of the manager for user U leaves
\* every expense of another user in the table, unchanged
C25_OnlyOwnRowsTouched ==
    [][ \A k \in 1..Len(expenses_table) :
            expenses_table[k].user_id # manager_user_id =>
                \E j \in 1..Len(expenses_table') : expenses_table'[j] = expenses_table[k] ]_vars

\* the manager of "bob" has updated or deleted the expense of "alice"
C25_Witness ==
    /\ USER_ID = "bob"
    /\ history # <<>>
    /\ LastOp.fn \in {"update_expense", "delete_expense"}
    /\ ~LastOp.raised
    /\ LastOp.arg = "b2e1-4d3e"
    /\ LastOp.ret
    /\ \A j \in 1..Len(expenses_table) : expenses_table[j] # SeedUsersTable[1]

-----------------------------------------------------------------------------
(* get_meeting_conflicts on a store of several meetings                    *)

\* date.toordinal(): days since 0001-01-01
RECURSIVE DaysBefore(_, _)
DaysBefore(y, m) == IF m = 1 THEN 0 ELSE DaysBefore(y, m - 1) + DaysIn(y, m - 1)

toordinal(dt) ==
    365 * (dt.y - 1) + ((dt.y - 1) \div 4) - ((dt.y - 1) \div 100) + ((dt.y - 1) \div 400)
      + DaysBefore(dt.y, dt.m) + dt.d

\* datetime.strptime(s, "%Y-%m-%d %H:%M"): four digits of year, one or two
\* digits for the other fields, the whole string consumed; ok = FALSE is
\* ValueError, t is the datetime in minutes
strptime(s) ==
    LET Field(i) == [from |-> i, to |-> DigitRunEnd(s, i)]
        Val(f) == ParseInt(Slice(s, f.from, f.to))
        Short(f) == f.to - f.from + 1 \in 1..2
        Parse(Y, m, d, sp, H, M) ==
            IF /\ Y.to = 4
               /\ Char(s, 5) = "-" /\ Short(m)
               /\ Char(s, m.to + 1) = "-" /\ Short(d)
               /\ sp > d.to + 1 /\ Short(H)
               /\ Char(s, H.to + 1) = ":" /\ Short(M)
               /\ M.to = Len(s)
               /\ Val(m) \in 1..12 /\ Val(d) >= 1 /\ Val(H) \in 0..23 /\ Val(M) \in 0..59
               /\ ValidDate(Date(Val(Y), Val(m), Val(d)))
            THEN [ok |-> TRUE,
                  t |-> 1440 * toordinal(Date(Val(Y), Val(m), Val(d))) + 60 * Val(H) + Val(M)]
            ELSE [ok |-> FALSE, t |-> 0]
        TimeFromDay(Y, m, d) ==
            LET sp == SkipWhile(s, d.to + 1, FALSE)
            IN  Parse(Y, m, d, sp, Field(sp), Field(Field(sp).to + 2))
        TimeFromMonth(Y, m) == TimeFromDay(Y, m, Field(m.to + 2))
    IN  TimeFromMonth(Field(1), Field(6))

\* proposed_start < existing_end and proposed_end > existing_start
overlap(ps, pe, es, ee) == ps < ee /\ pe > es

RECURSIVE FormatConflicts(_)
FormatConflicts(cs) ==
    IF cs = <<>> THEN ""
    ELSE "**" \o cs[1].title \o "**\n   " \o cs[1].date \o " " \o cs[1].time \o " - "
           \o IntStr(cs[1].duration_minutes) \o " min\n   " \o cs[1].location \o "\n\n"
           \o FormatConflicts(Tail(cs))

CONFLICT_ERROR == "Error checking conflicts: time data does not match format '%Y-%m-%d %H:%M'"

\* get_meeting_conflicts(date, time, duration_minutes): the conflicts found
\* and the text returned
get_meeting_conflicts(meetings, date, time, duration_minutes) ==
    LET proposed == strptime(date \o " " \o time)
        Considered(mt) == mt.date = date /\ mt.status = "scheduled"
        Existing(mt) == strptime(mt.date \o " " \o mt.time)
        Hit(mt) ==
            /\ Considered(mt)
            /\ overlap(proposed.t, proposed.t + duration_minutes,
                       Existing(mt).t, Existing(mt).t + mt.duration_minutes)
        Found(cs) ==
            IF cs = <<>>
            THEN [error |-> FALSE, conflicts |-> cs,
                  ret |-> "No conflicts found for " \o date \o " at " \o time \o "."]
            ELSE [error |-> FALSE, conflicts |-> cs,
                  ret |-> "Found " \o IntStr(Len(cs)) \o " conflict(s) for " \o date
                            \o " at " \o time \o ":\n\n" \o FormatConflicts(cs)]
    IN  IF ~proposed.ok
           \/ \E k \in 1..Len(meetings) : Considered(meetings[k]) /\ ~Existing(meetings[k]).ok
        THEN [error |-> TRUE, conflicts |-> <<>>, ret |-> CONFLICT_ERROR]
        ELSE Found(SelectSeq(meetings, Hit))

Meeting(id, title, date, time, duration, status) ==
    [meeting_id |-> id, title |-> title, date |-> date, time |-> time,
     duration_minutes |-> duration, attendees |-> <<>>, location |-> "Room 1",
     description |-> "", status |-> status,
     created_at |-> "2026-10-28T09:00:00", updated_at |-> "2026-10-28T09:00:00"]

\* a day with a morning meeting, a cancelled one and one that runs past midnight
SeedDay == SeedMeetings \o <<
    Meeting("m002", "Review", "2026-11-02", "10:00", 60, "cancelled"),
    Meeting("m003", "Release call", "2026-11-02", "23:30", 60, "scheduled") >>

ConflictDates == {"2026-11-02", "2026-11-03", "2026-11-2", "tomorrow"}
ConflictTimes == {"08:30", "09:00", "09:15", "09:30", "10:30", "9:10", "00:00", "23:00"}
ConflictDurations == {0, 15, 30, 60}

\* the most conflict checks in one run
MaxChecks == 1

get_meeting_conflicts_call(date, time, duration_minutes) ==
    /\ phase = "conflicts"
    /\ Len(calls) < MaxChecks
    /\ calls' = Append(calls, Call("get_meeting_conflicts", <<date, time>>, duration_minutes))
    /\ out' = <<get_meeting_conflicts(meetings_file, date, time, duration_minutes)>>
    /\ UNCHANGED <<USER_ID, creds, client, expenses_table, expenses_file, meetings_file,
                   today, food_logs, food_logs_table, threads, history, phase, inbox, sent_user, run>>

InitConflicts ==
    /\ USER_ID = NoEnv
    /\ creds = FALSE
    /\ client = FALSE
    /\ expenses_table = SeedTable
    /\ expenses_file = SeedFile
    /\ meetings_file \in {SeedMeetings, SeedDay}
    /\ today = Date(2026, 11, 1)
    /\ history = <<>>
    /\ food_logs = <<>>
    /\ food_logs_table = <<>>
    /\ threads = <<>>
    /\ phase = "conflicts"
    /\ inbox = ""
    /\ sent_user = ""
    /\ run = NoRun
    /\ calls = <<>>
    /\ out = <<>>

NextConflicts ==
    \E date \in ConflictDates : \E time \in ConflictTimes : \E d \in ConflictDurations :
        get_meeting_conflicts_call(date, time, d)

SpecConflicts == InitConflicts /\ [][NextConflicts]_vars

-----------------------------------------------------------------------------
(* Properties of get_meeting_conflicts, checked under SpecConflicts        *)

\* [a, b) and [c, d) have a minute in common
IntervalsMeet(a, b, c, d) == Max({a, c}) < Min({b, d})

LastCheck == calls[Len(calls)]

\* C23: a stored meeting is reported as a conflict if and only if it is
\* scheduled and its interval [start, start + duration) overlaps the proposed
\* interval [start, start + duration); intervals that only touch do not overlap
C23_ConflictIffOverlap ==
    (calls # <<>> /\ strptime(LastCheck.arg[1] \o " " \o LastCheck.arg[2]).ok) =>
        LET ps == strptime(LastCheck.arg[1] \o " " \o LastCheck.arg[2]).t
            Start(mt) == strptime(mt.date \o " " \o mt.time).t
            Reported(mt) == \E k \in 1..Len(out[1].conflicts) : out[1].conflicts[k] = mt
        IN  /\ ~out[1].error
            /\ \A k \in 1..Len(meetings_file) :
                  Reported(meetings_file[k]) <=>
                      /\ meetings_file[k].status = "scheduled"
                      /\ IntervalsMeet(ps, ps + LastCheck.arg2,
                                       Start(meetings_file[k]),
                                       Start(meetings_file[k])
                                         + meetings_file[k].duration_minutes)

\* a check of 2026-11-03 00:00 for 30 minutes against the call that started at
\* 23:30 the evening before and lasts an hour
C23_Witness ==
    /\ calls # <<>>
    /\ LastCheck = Call("get_meeting_conflicts", <<"2026-11-03", "00:00">>, 30)
    /\ meetings_file = SeedDay
    /\ out[1].conflicts = <<>>

-----------------------------------------------------------------------------
(* The expense tools called one after another: add_expense, list_expenses, *)
(* update_expense and delete_expense on the two backends                   *)

\* DataManager.delete_expense: every row with the id is dropped and the file
\* rewritten; found = FALSE leaves the file as it is
DataManager_delete_expense(file, expense_id) ==
    LET Other(e) == e.expense_id # expense_id
    IN  [found |-> Len(SelectSeq(file, Other)) < Len(file), file |-> SelectSeq(file, Other)]

\* delete_expense(expense_id): only DataManager's file is consulted
delete_expense(expense_id) ==
    LET r == DataManager_delete_expense(expenses_file, expense_id)
    IN  IF r.found
        THEN [ret |-> "Expense " \o expense_id \o " deleted successfully.", file |-> r.file]
        ELSE [ret |-> "Expense " \o expense_id \o " not found.", file |-> expenses_file]

\* ids of the rows in either store
StoredIds24 ==
    {expenses_table[k].expense_id : k \in 1..Len(expenses_table)}
      \cup {expenses_file[k].expense_id : k \in 1..Len(expenses_file)}

ToolIds == IdPool \cup {"a1f0"}

\* the most tool calls in one run
MaxToolOps == 3

ToolFrame == UNCHANGED <<USER_ID, creds, today, food_logs, food_logs_table, threads, phase, inbox, sent_user, run, calls>>

\* add_expense(50.0, "electronics", "headphones"); the history keeps the id
\* the returned message names
add_expense_call(id1, id2, insert_ok, reinit_ok) ==
    LET Done(r, id) ==
            /\ expenses_table' = r.table
            /\ expenses_file' = r.file
            /\ client' = r.client
            /\ history' = Append(history, Op("add_expense", id, FALSE, r.ret))
            /\ out' = <<r.ret>>
    IN  /\ phase = "expense_tools"
        /\ Len(history) < MaxToolOps
        /\ id1 # id2
        /\ {id1, id2} \cap StoredIds24 = {}
        /\ \A k \in 1..Len(history) : history[k].fn = "add_expense" => history[k].arg \notin {id1, id2}
        /\ Done(add_expense(5000, "electronics", "headphones", "", id1, id2, insert_ok, reinit_ok),
                IF (client \/ (creds /\ reinit_ok)) /\ insert_ok THEN id1 ELSE id2)
        /\ UNCHANGED meetings_file
        /\ ToolFrame

list_expenses_call(query_ok) ==
    /\ phase = "expense_tools"
    /\ Len(history) < MaxToolOps
    /\ history' = Append(history, Op("list_expenses", "all", FALSE, list_expenses("all", query_ok)))
    /\ out' = <<list_expenses("all", query_ok)>>
    /\ UNCHANGED <<client, expenses_table, expenses_file, meetings_file>>
    /\ ToolFrame

update_expense_tool_call(expense_id, updates) ==
    LET Done(r) ==
            /\ expenses_file' = r.file
            /\ history' = Append(history, Op("update_expense", expense_id, FALSE, r.ret))
            /\ out' = <<r.ret>>
    IN  /\ phase = "expense_tools"
        /\ Len(history) < MaxToolOps
        /\ Done(update_expense(expense_id, updates))
        /\ UNCHANGED <<client, expenses_table, meetings_file>>
        /\ ToolFrame

delete_expense_call(expense_id) ==
    LET Done(r) ==
            /\ expenses_file' = r.file
            /\ history' = Append(history, Op("delete_expense", expense_id, FALSE, r.ret))
            /\ out' = <<r.ret>>
    IN  /\ phase = "expense_tools"
        /\ Len(history) < MaxToolOps
        /\ Done(delete_expense(expense_id))
        /\ UNCHANGED <<client, expenses_table, meetings_file>>
        /\ ToolFrame

InitTools ==
    /\ USER_ID = NoEnv
    /\ creds \in BOOLEAN
    /\ client = creds
    /\ expenses_table = SeedTable
    /\ expenses_file = SeedFile
    /\ meetings_file = SeedMeetings
    /\ today = Date(2026, 11, 1)
    /\ history = <<>>
    /\ food_logs = <<>>
    /\ food_logs_table = <<>>
    /\ threads = <<>>
    /\ phase = "expense_tools"
    /\ inbox = ""
    /\ sent_user = ""
    /\ run = NoRun
    /\ calls = <<>>
    /\ out = <<>>

NextTools ==
    \/ \E id1, id2 \in IdPool : \E insert_ok, reinit_ok \in BOOLEAN :
          add_expense_call(id1, id2, insert_ok, reinit_ok)
    \/ \E query_ok \in BOOLEAN : list_expenses_call(query_ok)
    \/ \E id \in ToolIds : update_expense_tool_call(id, json_dumps(<< <<"category", "food">> >>))
    \/ \E id \in ToolIds : delete_expense_call(id)

SpecTools == InitTools /\ [][NextTools]_vars

-----------------------------------------------------------------------------
(* Properties of the expense tools, checked under SpecTools                *)

\* the ids add_expense reported and no delete_expense has removed since
LiveAdded(n) ==
    {history[j].arg : j \in {i \in 1..n : 
        /\ history[i].fn = "add_expense"
        /\ \A d \in (i + 1)..n :
              ~(/\ history[d].fn = "delete_expense"
                /\ history[d].arg = history[i].arg
                /\ history[d].ret = "Expense " \o history[i].arg \o " deleted successfully.")}}

\* C24: an expense add_expense reported with id X and that has not been
\* deleted is listed by list_expenses() and is found by update_expense(X, ...)
\* and delete_expense(X), whichever backend took it
C24_AddedIsAddressable ==
    history # <<>> =>
        LET n == Len(history)
            X == LiveAdded(n - 1)
        IN  /\ LastOp.fn = "list_expenses" =>
                  \A id \in X : Contains(LastOp.ret, "ID: " \o id \o "\n")
            /\ (LastOp.fn = "update_expense" /\ LastOp.arg \in X) =>
                  LastOp.ret = "Expense " \o LastOp.arg \o " updated successfully."
            /\ (LastOp.fn = "delete_expense" /\ LastOp.arg \in X) =>
                  LastOp.ret = "Expense " \o LastOp.arg \o " deleted successfully."

\* the expense went to Supabase and update_expense with its id found nothing
C24_Witness ==
    /\ Len(history) = 2
    /\ history[1].fn = "add_expense"
    /\ Contains(history[1].ret, "added to Supabase with ID: " \o history[1].arg)
    /\ history[2].fn = "update_expense"
    /\ history[2].arg = history[1].arg
    /\ history[2].ret = "Expense " \o history[1].arg \o " not found."

-----------------------------------------------------------------------------
(* Properties of the update branch, checked under SpecRouting              *)

\* the stored expenses, local and remote, with the id
Stored(expense_id) ==
    {expenses_file[k] : k \in WithId(expenses_file, expense_id)}
      \cup {[f \in DOMAIN expenses_file[1] |-> expenses_table[k][f]] :
               k \in WithId(expenses_table, expense_id)}

\* C26: the reply "Updated expense <id> to category: <c>" is sent only if an
\* expense with that id is stored and has category c after the call
C26_SuccessReplyOnlyIfUpdated ==
    (phase = "done" /\ run.branch = "update") =>
        (out = <<"Updated expense " \o run.expense_id \o " to category: " \o run.category>> =>
            \E e \in Stored(run.expense_id) : e.category = run.category)

\* the reply was sent for an id the local file does not hold
C26_Witness ==
    /\ phase = "done"
    /\ run.branch = "update"
    /\ run.expense_id = "c3d2-4e4f"
    /\ out = <<"Updated expense c3d2-4e4f to category: food">>
    /\ calls = <<Call("update_expense", "c3d2-4e4f",
                      json_dumps(<< <<"category", "food">>, <<"date", "2026-11-01">> >>))>>
    /\ WithId(expenses_file, "c3d2-4e4f") = {}


\* C28: an update request changes only the category and the date of the
\* expense with the given id: its other fields, every other expense of the
\* file, the table and the meetings stay as they were
C28_UpdateFrame ==
    [][ (phase = "sent" /\ phase' = "done" /\ run'.branch = "update") =>
            /\ expenses_table' = expenses_table
            /\ meetings_file' = meetings_file
            /\ Len(expenses_file') = Len(expenses_file)
            /\ \A k \in 1..Len(expenses_file) :
                  IF expenses_file[k].expense_id = run'.expense_id
                  THEN \A f \in DOMAIN expenses_file[k] \ {"category", "date"} :
                          expenses_file'[k][f] = expenses_file[k][f]
                  ELSE expenses_file'[k] = expenses_file[k] ]_vars

\* the expense a1f0 was moved to food while the file held a second expense
C28_Witness ==
    /\ phase = "done"
    /\ run.branch = "update"
    /\ run.expense_id = "a1f0"
    /\ Len(expenses_file) = 2
    /\ expenses_file[1].expense_id = "a1f0"
    /\ expenses_file[1].category = "food"
    /\ expenses_file[1].date = "2026-11-01"
    /\ expenses_file[1].amount = 1500
    /\ expenses_file[2].category = "electronics"

-----------------------------------------------------------------------------
(* DataManager called directly: adds, updates and deletes on the expenses  *)
(* file and the meetings file, one operation after another                 *)

\* DataManager.delete_meeting
DataManager_delete_meeting(file, meeting_id) ==
    LET Other(mt) == mt.meeting_id # meeting_id
    IN  [found |-> Len(SelectSeq(file, Other)) < Len(file), file |-> SelectSeq(file, Other)]

\* str(uuid.uuid4()) for meetings
MeetingIdPool == {"9c1d-4e2f", "8b0c-4d1e"}

\* ids no record holds and no earlier add was given
FreshIds(pool) ==
    {id \in pool :
        /\ \A k \in 1..Len(expenses_file) : expenses_file[k].expense_id # id
        /\ \A k \in 1..Len(meetings_file) : meetings_file[k].meeting_id # id
        /\ \A k \in 1..Len(history) : history[k].ret # id}

StoreExpense ==
    [amount |-> 4200, currency |-> "USD", category |-> "shopping", subcategory |-> "",
     description |-> "shoes", date |-> "2026-11-01", payment_method |-> "credit",
     is_recurring |-> FALSE, tags |-> <<>>]

ExpenseUpdates == {<< <<"category", "food">> >>, << <<"expense_id", "a1f0">> >>}
MeetingUpdates == {<< <<"title", "Sync">> >>, << <<"meeting_id", "m001">> >>}

\* the most DataManager operations in one run
MaxStoreOps == 3

StoreFrame == UNCHANGED <<USER_ID, creds, client, expenses_table, today, food_logs, food_logs_table, threads, phase, inbox,
                          sent_user, run, calls>>

dm_step(fn, arg, ret, expenses, meetings) ==
    /\ phase = "store"
    /\ Len(history) < MaxStoreOps
    /\ history' = Append(history, Op(fn, arg, FALSE, ret))
    /\ out' = <<ret>>
    /\ expenses_file' = expenses
    /\ meetings_file' = meetings
    /\ StoreFrame

dm_add_expense(expense_id) ==
    /\ expense_id \in FreshIds(IdPool)
    /\ dm_step("add_expense", "shoes", expense_id,
               Append(expenses_file, LocalRow(expense_id, StoreExpense)), meetings_file)

dm_update_expense(expense_id, updates) ==
    LET Done(r) == dm_step("update_expense", expense_id, IF r.found THEN "True" ELSE "False",
                           r.file, meetings_file)
    IN  Done(DataManager_update_expense(expenses_file, expense_id, updates))

dm_delete_expense(expense_id) ==
    LET Done(r) == dm_step("delete_expense", expense_id, IF r.found THEN "True" ELSE "False",
                           r.file, meetings_file)
    IN  Done(DataManager_delete_expense(expenses_file, expense_id))

dm_add_meeting(meeting_id) ==
    LET Row == [Meeting(meeting_id, "Planning", "2026-11-03", "14:00", 45, "scheduled")
                  EXCEPT !.created_at = isoformat(today), !.updated_at = isoformat(today)]
    IN  /\ meeting_id \in FreshIds(MeetingIdPool)
        /\ dm_step("add_meeting", "Planning", meeting_id,
                   expenses_file, Append(meetings_file, Row))

dm_update_meeting(meeting_id, updates) ==
    LET Done(r) == dm_step("update_meeting", meeting_id, IF r.found THEN "True" ELSE "False",
                           expenses_file, r.file)
    IN  Done(DataManager_update_meeting(meetings_file, meeting_id, updates, today))

dm_delete_meeting(meeting_id) ==
    LET Done(r) == dm_step("delete_meeting", meeting_id, IF r.found THEN "True" ELSE "False",
                           expenses_file, r.file)
    IN  Done(DataManager_delete_meeting(meetings_file, meeting_id))

InitStore ==
    /\ USER_ID = NoEnv
    /\ creds = FALSE
    /\ client = FALSE
    /\ expenses_table = SeedTable
    /\ expenses_file = SeedFile
    /\ meetings_file = SeedMeetings
    /\ today = Date(2026, 11, 1)
    /\ history = <<>>
    /\ food_logs = <<>>
    /\ food_logs_table = <<>>
    /\ threads = <<>>
    /\ phase = "store"
    /\ inbox = ""
    /\ sent_user = ""
    /\ run = NoRun
    /\ calls = <<>>
    /\ out = <<>>

NextStore ==
    \/ \E id \in IdPool : dm_add_expense(id)
    \/ \E id \in IdPool \cup {"a1f0"} : \E u \in ExpenseUpdates : dm_update_expense(id, u)
    \/ \E id \in IdPool \cup {"a1f0"} : dm_delete_expense(id)
    \/ \E id \in MeetingIdPool : dm_add_meeting(id)
    \/ \E id \in MeetingIdPool \cup {"m001"} : \E u \in MeetingUpdates : dm_update_meeting(id, u)
    \/ \E id \in MeetingIdPool \cup {"m001"} : dm_delete_meeting(id)

SpecStore == InitStore /\ [][NextStore]_vars

-----------------------------------------------------------------------------
(* Properties of the local stores, checked under SpecStore                 *)

\* C27: no two records of the expenses file share an expense_id and no two
\* records of the meetings file share a meeting_id, whatever adds, updates
\* and deletes came before
C27_UniqueIds ==
    /\ \A i, j \in 1..Len(expenses_file) :
          expenses_file[i].expense_id = expenses_file[j].expense_id => i = j
    /\ \A i, j \in 1..Len(meetings_file) :
          meetings_file[i].meeting_id = meetings_file[j].meeting_id => i = j

\* an expense was added under a fresh id and then updated with {"expense_id": "a1f0"}
C27_Witness ==
    /\ Len(history) = 2
    /\ history[1].fn = "add_expense"
    /\ history[2].fn = "update_expense"
    /\ history[2].arg = history[1].ret
    /\ history[2].ret = "True"
    /\ Len(expenses_file) = 2
    /\ expenses_file[1].expense_id = "a1f0"
    /\ expenses_file[2].expense_id = "a1f0"

-----------------------------------------------------------------------------
(* mcp_tools/health_diet_tools: add_food_log on the food_logs table or, with *)
(* no database, on the in-memory list.  An optional int is a sequence:     *)
(* <<>> for None, <<n>> for n.                                             *)

RECURSIVE SumCalories(_)
\* sum(f.get("calories", 0) for f in today_foods): the key is always there,
\* so a None is added to an int; ok = FALSE is that TypeError
SumCalories(fs) ==
    IF fs = <<>> THEN [ok |-> TRUE, total |-> 0]
    ELSE IF fs[1].calories = <<>> THEN [ok |-> FALSE, total |-> 0]
    ELSE [ok |-> SumCalories(Tail(fs)).ok,
          total |-> fs[1].calories[1] + SumCalories(Tail(fs)).total]

TYPE_ERROR == "unsupported operand type(s) for +: 'int' and 'NoneType'"

FOOD_INSERT_FAILED == "Database error: Failed to insert food log into Supabase"

FoodRow(food_id, meal_type, food_item, calories) ==
    [food_id |-> food_id, meal_type |-> Lower(meal_type), food_item |-> food_item,
     calories |-> calories, date |-> strftime(today), created_at |-> isoformat(today)]

\* add_food_log(meal_type, food_item, calories): the text returned and the two
\* stores after it.  food_id is the uuid drawn, insert_ok says whether the
\* insert comes back with data, query_ok whether get_food_logs succeeds.
add_food_log(meal_type, food_item, calories, food_id, insert_ok, query_ok) ==
    LET row == FoodRow(food_id, meal_type, food_item, calories)
        Today(f) == f.date = strftime(today)
        Text(head, total) ==
            head \o "\n\n**Meal**: " \o Title(Lower(meal_type)) \o "\n**Food**: " \o food_item \o "\n"
              \o (IF calories # <<>> /\ calories # <<0>>
                  THEN "**Calories**: " \o IntStr(calories[1]) \o "\n" ELSE "")
              \o "\nToday's Total Calories: " \o IntStr(total)
        Summed(head, s, logs, table) ==
            IF s.ok THEN [ret |-> Text(head, s.total), logs |-> logs, table |-> table]
            ELSE [ret |-> "Error adding food log: " \o TYPE_ERROR, logs |-> logs, table |-> table]
        Remote(table) ==
            IF ~query_ok
            THEN [ret |-> "Error adding food log: " \o QUERY_ERROR,
                  logs |-> food_logs, table |-> table]
            ELSE Summed("Food logged!", SumCalories(SelectSeq(table, Today)), food_logs, table)
        Local(logs) ==
            Summed("Food logged! (Local Storage)", SumCalories(SelectSeq(logs, Today)),
                   logs, food_logs_table)
    IN  IF client /\ ~insert_ok
        THEN [ret |-> "Error adding food log: " \o FOOD_INSERT_FAILED,
              logs |-> food_logs, table |-> food_logs_table]
        ELSE IF client THEN Remote(Append(food_logs_table, row))
        ELSE Local(Append(food_logs, row))

FoodIdPool == {"f00d-4a1b", "f11e-4b2c"}

\* what was eaten before: a dinner of the day before and a breakfast of today
SeedFood == <<
    [food_id |-> "0a1b-4c2d", meal_type |-> "dinner", food_item |-> "soup",
     calories |-> <<>>, date |-> "2026-10-31", created_at |-> "2026-10-31T09:00:00"],
    [food_id |-> "1b2c-4d3e", meal_type |-> "breakfast", food_item |-> "oats",
     calories |-> <<300>>, date |-> "2026-11-01", created_at |-> "2026-11-01T09:00:00"] >>

MealTypes == {"lunch", "Snack"}
CaloriesArgs == {<<>>, <<0>>, <<450>>}

\* the most add_food_log calls in one run
MaxFoodLogs == 2

add_food_log_call(meal_type, food_item, calories, food_id, insert_ok, query_ok) ==
    LET Done(r) ==
            /\ food_logs' = r.logs
            /\ food_logs_table' = r.table
            /\ history' = Append(history, Op("add_food_log", calories, FALSE, r.ret))
            /\ out' = <<r.ret>>
    IN  /\ phase = "food"
        /\ Len(history) < MaxFoodLogs
        /\ \A k \in 1..Len(food_logs) : food_logs[k].food_id # food_id
        /\ \A k \in 1..Len(food_logs_table) : food_logs_table[k].food_id # food_id
        /\ Done(add_food_log(meal_type, food_item, calories, food_id, insert_ok, query_ok))
        /\ UNCHANGED <<USER_ID, creds, client, expenses_table, expenses_file, meetings_file,
                       today, threads, phase, inbox, sent_user, run, calls>>

InitFood ==
    /\ USER_ID = NoEnv
    /\ creds \in BOOLEAN
    /\ client = creds
    /\ expenses_table = SeedTable
    /\ expenses_file = SeedFile
    /\ meetings_file = SeedMeetings
    /\ today = Date(2026, 11, 1)
    /\ history = <<>>
    /\ food_logs \in {<<>>, SeedFood}
    /\ food_logs_table = SeedFood
    /\ threads = <<>>
    /\ phase = "food"
    /\ inbox = ""
    /\ sent_user = ""
    /\ run = NoRun
    /\ calls = <<>>
    /\ out = <<>>

NextFood ==
    \E meal_type \in MealTypes : \E calories \in CaloriesArgs : \E food_id \in FoodIdPool :
    \E insert_ok, query_ok \in BOOLEAN :
        add_food_log_call(meal_type, "salad", calories, food_id, insert_ok, query_ok)

SpecFood == InitFood /\ [][NextFood]_vars

-----------------------------------------------------------------------------
(* Properties of add_food_log, checked under SpecFood                      *)

IsFoodError(ret) == Slice(ret, 1, 23) = "Error adding food log: "

\* the calories of today's entries of the store the call wrote to, summed
\* with None counted as nothing
RECURSIVE KnownCalories(_)
KnownCalories(fs) ==
    IF fs = <<>> THEN 0
    ELSE (IF fs[1].calories = <<>> \/ fs[1].date # strftime(today) THEN 0
          ELSE fs[1].calories[1]) + KnownCalories(Tail(fs))

\* C29: a call that returns an error string has recorded nothing, in the
\* table or in the list, and a call that recorded an entry returns the
\* success message ending with today's total calories; the calories argument
\* may be left out
C29_ErrorMeansNothingRecorded ==
    [][ Len(history') = Len(history) + 1 =>
          /\ IsFoodError(out'[1]) =>
                food_logs' = food_logs /\ food_logs_table' = food_logs_table
          /\ food_logs' # food_logs =>
                /\ Slice(out'[1], 1, 12) = "Food logged!"
                /\ Contains(out'[1], "Today's Total Calories: "
                                       \o IntStr(KnownCalories(food_logs')))
          /\ food_logs_table' # food_logs_table =>
                /\ Slice(out'[1], 1, 12) = "Food logged!"
                /\ Contains(out'[1], "Today's Total Calories: "
                                       \o IntStr(KnownCalories(food_logs_table'))) ]_vars

\* add_food_log("lunch", "salad") without calories answered with the
\* TypeError text, and the salad is in the list
C29_Witness ==
    /\ ~client
    /\ Len(history) = 1
    /\ history[1].arg = <<>>
    /\ out = <<"Error adding food log: " \o TYPE_ERROR>>
    /\ Len(food_logs) = 1
    /\ food_logs[1].food_item = "salad"
    /\ food_logs[1].calories = <<>>

-----------------------------------------------------------------------------
(* DataManager.add_expense and add_meeting run by several callers at once  *)
(* on the same data directory: the read, the truncating open and the dump  *)
(* of each caller are separate steps, and nothing locks the file           *)

\* the most callers running at once
MaxThreads == 2

Threads == 1..MaxThreads

\* str(uuid.uuid4()) of each caller
thread_uuid(t) == "7d0" \o IntStr(t) \o "-4a1b"

Idle == [pc |-> "idle", kind |-> "", local |-> <<>>, id |-> ""]

\* what _read_json returns for the file the caller works on; a file that was
\* opened for writing and not yet dumped is empty, json.load fails and the
\* result is []
read_json(kind) == IF kind = "expense" THEN expenses_file ELSE meetings_file

ThreadFrame == UNCHANGED <<USER_ID, creds, client, expenses_table, today, history,
                           food_logs, food_logs_table, phase, inbox, sent_user, run,
                           calls, out>>

\* _write_json's effect on the file of the kind
write_json(kind, data) ==
    /\ expenses_file' = IF kind = "expense" THEN data ELSE expenses_file
    /\ meetings_file' = IF kind = "meeting" THEN data ELSE meetings_file

\* expenses = self.get_expenses(); ...; expenses.append(expense_data)
add_read(t, kind) ==
    LET id == thread_uuid(t)
        row == IF kind = "expense" THEN LocalRow(id, StoreExpense)
               ELSE [Meeting(id, "Planning", "2026-11-03", "14:00", 45, "scheduled")
                       EXCEPT !.created_at = isoformat(today), !.updated_at = isoformat(today)]
    IN  /\ phase = "threads"
        /\ threads[t].pc = "idle"
        /\ threads' = [threads EXCEPT ![t] = [pc |-> "read", kind |-> kind,
                                              local |-> Append(read_json(kind), row),
                                              id |-> id]]
        /\ UNCHANGED <<expenses_file, meetings_file>>
        /\ ThreadFrame

\* with open(file_path, 'w'): the file is truncated
add_open(t) ==
    /\ phase = "threads"
    /\ threads[t].pc = "read"
    /\ threads' = [threads EXCEPT ![t].pc = "open"]
    /\ write_json(threads[t].kind, <<>>)
    /\ ThreadFrame

\* json.dump(data, f) and the close; the caller then returns its id.  With
\* another handle open on the same file the bytes of the two dumps may mix
\* into text json.load rejects, which reads as []
add_dump(t) ==
    LET Overlap == \E u \in Threads \ {t} :
                      threads[u].pc = "open" /\ threads[u].kind = threads[t].kind
    IN  /\ phase = "threads"
        /\ threads[t].pc = "open"
        /\ threads' = [threads EXCEPT ![t].pc = "done"]
        /\ \/ write_json(threads[t].kind, threads[t].local)
           \/ Overlap /\ write_json(threads[t].kind, <<>>)
        /\ ThreadFrame

InitThreads ==
    /\ USER_ID = NoEnv
    /\ creds = FALSE
    /\ client = FALSE
    /\ expenses_table = SeedTable
    /\ expenses_file \in {<<>>, SeedFile}
    /\ meetings_file \in {<<>>, SeedMeetings}
    /\ today = Date(2026, 11, 1)
    /\ history = <<>>
    /\ food_logs = <<>>
    /\ food_logs_table = <<>>
    /\ threads = [t \in Threads |-> Idle]
    /\ phase = "threads"
    /\ inbox = ""
    /\ sent_user = ""
    /\ run = NoRun
    /\ calls = <<>>
    /\ out = <<>>

NextThreads ==
    \E t \in Threads :
        \/ \E kind \in {"expense", "meeting"} : add_read(t, kind)
        \/ add_open(t)
        \/ add_dump(t)

SpecThreads == InitThreads /\ [][NextThreads]_vars

-----------------------------------------------------------------------------
(* Properties of concurrent adds, checked under SpecThreads                *)

\* the caller's record is in the file it was added to
Present(t) ==
    IF threads[t].kind = "expense"
    THEN \E k \in 1..Len(expenses_file) : expenses_file[k].expense_id = threads[t].id
    ELSE \E k \in 1..Len(meetings_file) : meetings_file[k].meeting_id = threads[t].id

\* C30: once every add that was started has returned, the record of each of
\* them is in the store
C30_NoLostAdd ==
    (\A t \in Threads : threads[t].pc \in {"idle", "done"}) =>
        \A t \in Threads : threads[t].pc = "done" => Present(t)

\* two add_expense calls have returned and the file holds the record of one
C30_Witness ==
    /\ \A t \in {1, 2} : threads[t].pc = "done" /\ threads[t].kind = "expense"
    /\ Present(2)
    /\ ~Present(1)
    /\ Len(expenses_file) = 2

=============================================================================
